---- MODULE Spec2Model ----
(***************************************************************************)
(* Tracking-to-actuation pipeline of i-am-robot: pose filters, hand        *)
(* retargeting, CCD / two-bone inverse kinematics and the per-frame        *)
(* controllers that drive them.                                            *)
(*                                                                         *)
(* JavaScript numbers are modelled as exact rationals <<n, d>> (d > 0, in  *)
(* lowest terms); an absent object (null / undefined) is the empty tuple   *)
(* and a present one is the one-element tuple holding it.                  *)
(***************************************************************************)
EXTENDS Integers, Sequences, FiniteSets, TLC

VARIABLES
  bench,     \* one filter object under an arbitrary caller
  fingers,   \* the hand joints of the robot and what applyFingerAngles wrote
  arm,       \* one two-bone arm: link lengths, shoulder, last solveTwoBoneIK call
  hand,      \* one tracked hand frame, its retargeted shape and shape filter
  tracker,   \* HandTracker: per-hand filters, flags and the pose pushed to the arm
  robot      \* URDFRobot: arm chains, finger joints, per-hand filters

vars == <<bench, fingers, arm, hand, tracker, robot>>

(***************************************************************************)
(* Numbers                                                                 *)
(***************************************************************************)
Abs(x) == IF x < 0 THEN -x ELSE x

\* a statement const v = x followed by the rest of the body, written
\* Let([v \in {x} |-> rest]): x is evaluated once, before the rest
Let(f) == f[CHOOSE v \in DOMAIN f : TRUE]

RECURSIVE Gcd(_, _)
\* Euclid's algorithm, five remainders to a step
Gcd(a, b) ==
  LET r1 == a % b
      r2 == b % r1
      r3 == r1 % r2
      r4 == r2 % r3
      r5 == r3 % r4
  IN  CASE b = 0 -> a
        [] b # 0 /\ r1 = 0 -> b
        [] b # 0 /\ r1 # 0 /\ r2 = 0 -> r1
        [] b # 0 /\ r1 # 0 /\ r2 # 0 /\ r3 = 0 -> r2
        [] b # 0 /\ r1 # 0 /\ r2 # 0 /\ r3 # 0 /\ r4 = 0 -> r3
        [] OTHER -> Gcd(r4, r5)

\* an array built by a loop or a map: the tuple of the values of f
Values(f) == f \o <<>>

\* the rational n/d in lowest terms with a positive denominator
Q(n, d) ==
  Let([g \in {Gcd(Abs(n), Abs(d))} |->
  IF d < 0 THEN <<(-n) \div g, (-d) \div g>> ELSE <<n \div g, d \div g>>])

I(n) == <<n, 1>>

QAdd(a, b) ==
  Let([x \in {a}, y \in {b} |->
  Let([g \in {Gcd(x[2], y[2])} |->
  Q(x[1] * (y[2] \div g) + y[1] * (x[2] \div g), (x[2] \div g) * y[2])])])

QNeg(a) == <<-a[1], a[2]>>

QSub(a, b) == QAdd(a, QNeg(b))

QMul(a, b) ==
  Let([x \in {a}, y \in {b} |->
  Let([g1 \in {Gcd(Abs(x[1]), y[2])}, g2 \in {Gcd(Abs(y[1]), x[2])} |->
  Q((x[1] \div g1) * (y[1] \div g2), (x[2] \div g2) * (y[2] \div g1))])])

\* a / b for b # 0
QDiv(a, b) == QMul(a, Let([y \in {b} |-> Q(y[2], y[1])]))

QLe(a, b) ==
  Let([x \in {a}, y \in {b} |->
  Let([g \in {Gcd(x[2], y[2])} |->
  x[1] * (y[2] \div g) <= y[1] * (x[2] \div g)])])

QLt(a, b) == Let([x \in {a}, y \in {b} |-> QLe(x, y) /\ x # y])

QAbs(a) == Let([x \in {a} |-> <<Abs(x[1]), x[2]>>])

QMin(a, b) == Let([x \in {a}, y \in {b} |-> IF QLe(x, y) THEN x ELSE y])

QMax(a, b) == Let([x \in {a}, y \in {b} |-> IF QLe(x, y) THEN y ELSE x])

\* Math.max(min, Math.min(max, v))
clamp(v, lo, hi) == QMax(lo, QMin(hi, v))

Null == <<>>

Some(x) == <<x>>


(***************************************************************************)
(* THREE.Vector3 as a triple of numbers                                    *)
(***************************************************************************)
V(x, y, z) == <<I(x), I(y), I(z)>>

VZero == V(0, 0, 0)

VAdd(a, b) ==
  Let([x \in {a}, y \in {b} |-> <<QAdd(x[1], y[1]), QAdd(x[2], y[2]), QAdd(x[3], y[3])>>])

VSub(a, b) ==
  Let([x \in {a}, y \in {b} |-> <<QSub(x[1], y[1]), QSub(x[2], y[2]), QSub(x[3], y[3])>>])

VScale(a, s) ==
  Let([x \in {a}, y \in {s} |-> <<QMul(x[1], y), QMul(x[2], y), QMul(x[3], y)>>])

\* a lerp that steps from the target instead of toward it
VLerpAway(a, b, alpha) == VAdd(a, VScale(VSub(a, b), alpha))

\* Vector3.lerp: this += (v - this) * alpha, per component
VLerp(a, b, alpha) == VAdd(a, VScale(VSub(b, a), alpha))

(***************************************************************************)
(* THREE.Quaternion restricted to rotations about one fixed axis: the      *)
(* number h stands for (cos(h*pi), sin(h*pi) * axis), 0 <= h < 2, so that  *)
(* h and h + 1 are q and -q.                                               *)
(***************************************************************************)
\* h reduced into [0, 2)
QuatNorm(h) == Let([x \in {h} |-> <<x[1] % (2 * x[2]), x[2]>>])

\* the signed arc from a to b, in (-1, 1]
QuatArc(a, b) ==
  Let([d \in {QuatNorm(QSub(b, a))} |->
  IF QLt(I(1), d) THEN QSub(d, I(2)) ELSE d])

\* Quaternion.slerp(qb, t): along the shorter arc, qb negated when dot < 0
Slerp(a, b, t) ==
  Let([d \in {QuatArc(a, b)} |->
  Let([d2 \in {IF QLt(Q(1, 2), QAbs(d))
      THEN (IF QLt(I(0), d) THEN QSub(d, I(1)) ELSE QAdd(d, I(1)))
      ELSE d} |->
  IF t = I(0) THEN a
  ELSE IF t = I(1) THEN b
  ELSE IF d2 = I(0) THEN a
  ELSE QuatNorm(QAdd(a, QMul(d2, t)))])])

(***************************************************************************)
(* ImpedanceControl.js                                                     *)
(***************************************************************************)
\* a smoother that ramps in from the origin instead of snapping
ExponentialSmootherUpdateRampIn(value, alpha, target) ==
  Some(VLerp(IF value = Null THEN VZero ELSE value[1], target, alpha))

\* ExponentialSmoother.update: the new this.value, which is also returned
ExponentialSmootherUpdate(value, alpha, target) ==
  IF value = Null THEN Some(target)
  ELSE Some(VLerp(value[1], target, alpha))

\* ExponentialSmoother.reset(value): value is Null or Some(v)
ExponentialSmootherReset(value) == IF value # Null THEN value ELSE Null

QuaternionSmootherUpdate(value, alpha, target) ==
  IF value = Null THEN Some(target)
  ELSE Some(Slerp(value[1], target, alpha))

QuaternionSmootherReset(value) == IF value # Null THEN value ELSE Null

SpringMass == I(1)

SpringStiffness == I(64)

SpringDamping == Q(144, 10)

MaxDt == Q(5, 100)

\* SpringDamper.update on [pos, vel]: the new [pos, vel]; pos is returned
SpringDamperUpdate(sd, target, dt) ==
  IF sd.pos = Null THEN [pos |-> Some(target), vel |-> sd.vel]
  ELSE
    Let([dtc \in {QMin(dt, MaxDt)} |->
    Let([f0 \in {VScale(VSub(sd.pos[1], target), QNeg(SpringStiffness))} |->
    Let([f1 \in {VAdd(f0, VScale(sd.vel, QNeg(SpringDamping)))} |->
    Let([force \in {VScale(f1, QDiv(I(1), SpringMass))} |->
    Let([vel \in {VAdd(sd.vel, VScale(force, dtc))} |->
    Let([pos \in {VAdd(sd.pos[1], VScale(vel, dtc))} |->
    [pos |-> Some(pos), vel |-> vel]])])])])])])

\* SpringDamper.reset(pos)
SpringDamperReset(sd, pos) ==
  [pos |-> IF pos # Null THEN pos ELSE Null, vel |-> VZero]

(***************************************************************************)
(* HandRetargeting.js: RetargetingFilter                                   *)
(***************************************************************************)
\* the index and middle results written to each other's field
ShapeSwapped(abd, t0, t1, i0, i1, m0, m1) ==
  [thumb  |-> [abduction |-> abd, curl |-> <<t0, t1>>],
   index  |-> [curl |-> <<m0, m1>>],
   middle |-> [curl |-> <<i0, i1>>]]

Shape(abd, t0, t1, i0, i1, m0, m1) ==
  [thumb  |-> [abduction |-> abd, curl |-> <<t0, t1>>],
   index  |-> [curl |-> <<i0, i1>>],
   middle |-> [curl |-> <<m0, m1>>]]

\* const lerp = (a, b) => a + (b - a) * this.alpha
lerp(a, b, alpha) == QAdd(a, QMul(QSub(b, a), alpha))

\* raw.<finger>.curl.map((v, i) => lerp(this.last.<finger>.curl[i], v))
lerpCurl(lastCurl, rawCurl, alpha) ==
  <<lerp(lastCurl[1], rawCurl[1], alpha), lerp(lastCurl[2], rawCurl[2], alpha)>>

RetargetingFilterUpdate(last, alpha, raw) ==
  IF last = Null THEN Some(raw)
  ELSE
    LET l == last[1]
    IN  Some([thumb  |-> [abduction |-> lerp(l.thumb.abduction, raw.thumb.abduction, alpha),
                          curl |-> lerpCurl(l.thumb.curl, raw.thumb.curl, alpha)],
              index  |-> [curl |-> lerpCurl(l.index.curl, raw.index.curl, alpha)],
              middle |-> [curl |-> lerpCurl(l.middle.curl, raw.middle.curl, alpha)]])

RetargetingFilterReset == Null

(***************************************************************************)
(* One filter object of ImpedanceControl.js / HandRetargeting.js, driven   *)
(* by an arbitrary caller: construction, update(sample), reset(),          *)
(* reset(value).                                                           *)
(*   kind    the class of the object                                       *)
(*   val     this.value / this.pos / this.last                             *)
(*   vel     this.vel (SpringDamper)                                       *)
(*   fresh   no update and no reset(value) since construction or reset()   *)
(*   sample, out, prev, wasFresh   the last update: its argument, its      *)
(*           return value, val before it, fresh before it                  *)
(*   run     how many updates in a row were fed this same sample           *)
(*   stale, staleVel   val and vel when reset() was last called            *)
(***************************************************************************)
MaxOps == 4

Kinds == {"exp", "quat", "spring", "rf"}

\* constructor arguments used by the controllers, and the snap value 1
Alphas == {Q(3, 10), Q(2, 5), I(1)}

VecSamples == {V(0, 0, 0), V(1, -2, 0), V(-2, 1, 2)}

QuatSamples == {I(0), Q(1, 4), Q(5, 4)}

ShapeSamples ==
  {Shape(I(0), I(0), I(0), I(0), I(0), I(0), I(0)),
   Shape(I(1), I(1), I(1), I(1), I(1), I(1), I(1)),
   Shape(I(-1), Q(1, 2), Q(3, 5), I(0), Q(5, 6), I(1), I(0))}

DtSamples == {Q(1, 20), Q(1, 10)}

SamplesOf(kind) ==
  CASE kind = "exp"    -> VecSamples
    [] kind = "spring" -> VecSamples
    [] kind = "quat"   -> QuatSamples
    [] kind = "rf"     -> ShapeSamples

InitBench ==
  \E k \in Kinds, a \in Alphas :
    bench = [kind |-> k, alpha |-> a, val |-> Null, vel |-> VZero,
             ops |-> 0, lastOp |-> "new", fresh |-> TRUE,
             sample |-> Null, out |-> Null, prev |-> Null, wasFresh |-> FALSE,
             run |-> 0, stale |-> Null, staleVel |-> VZero]

IdleBench == bench = [kind |-> "none"]

IdleFingers == fingers = [mode |-> "none"]

IdleArm == arm = [mode |-> "none"]

IdleHand == hand = [mode |-> "none"]

IdleTracker == tracker = [mode |-> "none"]

IdleRobot == robot = [mode |-> "none"]

NotBench == <<fingers, arm, hand, tracker, robot>>

Updated(newVal, newVel, s) ==
  [bench EXCEPT !.val = newVal, !.vel = newVel, !.ops = @ + 1,
                !.lastOp = "update", !.fresh = FALSE,
                !.sample = Some(s), !.out = newVal, !.prev = bench.val,
                !.wasFresh = bench.fresh,
                !.run = IF bench.lastOp = "update" /\ bench.sample = Some(s)
                        THEN @ + 1 ELSE 1]

WasReset(newVal, newVel, toValue) ==
  [bench EXCEPT !.val = newVal, !.vel = newVel, !.ops = @ + 1,
                !.lastOp = IF toValue THEN "resetTo" ELSE "reset",
                !.fresh = ~toValue, !.run = 0,
                !.stale = bench.val, !.staleVel = bench.vel]

ExpUpdate ==
  /\ UNCHANGED NotBench
  /\ bench.kind = "exp" /\ bench.ops < MaxOps
  /\ \E s \in VecSamples :
       bench' = Updated(ExponentialSmootherUpdate(bench.val, bench.alpha, s), bench.vel, s)

ExpReset ==
  /\ UNCHANGED NotBench
  /\ bench.kind = "exp" /\ bench.ops < MaxOps
  /\ \E v \in {Null} \cup {Some(s) : s \in VecSamples} :
       bench' = WasReset(ExponentialSmootherReset(v), bench.vel, v # Null)

QuatUpdate ==
  /\ UNCHANGED NotBench
  /\ bench.kind = "quat" /\ bench.ops < MaxOps
  /\ \E s \in QuatSamples :
       bench' = Updated(QuaternionSmootherUpdate(bench.val, bench.alpha, s), bench.vel, s)

QuatReset ==
  /\ UNCHANGED NotBench
  /\ bench.kind = "quat" /\ bench.ops < MaxOps
  /\ \E v \in {Null} \cup {Some(s) : s \in QuatSamples} :
       bench' = WasReset(QuaternionSmootherReset(v), bench.vel, v # Null)

SpringUpdate ==
  /\ UNCHANGED NotBench
  /\ bench.kind = "spring" /\ bench.ops < MaxOps
  /\ \E s \in VecSamples, dt \in DtSamples :
       LET sd == SpringDamperUpdate([pos |-> bench.val, vel |-> bench.vel], s, dt)
       IN  bench' = Updated(sd.pos, sd.vel, s)

SpringReset ==
  /\ UNCHANGED NotBench
  /\ bench.kind = "spring" /\ bench.ops < MaxOps
  /\ \E v \in {Null} \cup {Some(s) : s \in VecSamples} :
       LET sd == SpringDamperReset([pos |-> bench.val, vel |-> bench.vel], v)
       IN  bench' = WasReset(sd.pos, sd.vel, v # Null)

RfUpdate ==
  /\ UNCHANGED NotBench
  /\ bench.kind = "rf" /\ bench.ops < MaxOps
  /\ \E s \in ShapeSamples :
       bench' = Updated(RetargetingFilterUpdate(bench.val, bench.alpha, s), bench.vel, s)

RfReset ==
  /\ UNCHANGED NotBench
  /\ bench.kind = "rf" /\ bench.ops < MaxOps
  /\ bench' = WasReset(RetargetingFilterReset, bench.vel, FALSE)

NextBench ==
  \/ ExpUpdate \/ ExpReset
  \/ QuatUpdate \/ QuatReset
  \/ SpringUpdate \/ SpringReset
  \/ RfUpdate \/ RfReset

InitFilter ==
  InitBench /\ IdleFingers /\ IdleArm /\ IdleHand /\ IdleTracker /\ IdleRobot

SpecFilter == InitFilter /\ [][NextBench]_vars

(***************************************************************************)
(* Claims about the filters                                                *)
(***************************************************************************)
\* the scalar components of a filter value
Scalars(kind, x) ==
  IF kind = "rf"
  THEN <<x.thumb.abduction, x.thumb.curl[1], x.thumb.curl[2],
         x.index.curl[1], x.index.curl[2], x.middle.curl[1], x.middle.curl[2]>>
  ELSE x

\* C6: for ExponentialSmoother, QuaternionSmoother, SpringDamper and
\* RetargetingFilter, the first update after construction and the first
\* update after reset() with no value returns exactly that update's sample,
\* whatever the filter held (and, for SpringDamper, whatever velocity it had)
\* before the reset.
C6_FirstUpdateReturnsSample ==
  (bench.kind \in Kinds /\ bench.lastOp = "update" /\ bench.wasFresh)
    => bench.out = bench.sample

\* a SpringDamper that had moved away from its samples and had velocity was
\* reset() and then updated with a sample different from what it held
C6_Witness ==
  /\ bench.kind = "spring" /\ bench.lastOp = "update" /\ bench.wasFresh
  /\ bench.stale # Null /\ bench.stale # bench.sample
  /\ bench.staleVel # VZero
  /\ bench.out = bench.sample

\* x lies between a and b, and not farther from b than a is; strictly nearer
\* when a # b
Approaches(a, x, b) ==
  /\ (QLe(a, x) /\ QLe(x, b)) \/ (QLe(b, x) /\ QLe(x, a))
  /\ QLe(QAbs(QSub(b, x)), QAbs(QSub(b, a)))
  /\ a # b => QLt(QAbs(QSub(b, x)), QAbs(QSub(b, a)))

\* C7: when the same target is fed again to an exponential filter
\* (ExponentialSmoother, a RetargetingFilter component) with alpha in (0, 1],
\* every component of the value moves toward the target without passing it:
\* its distance to the target does not grow, and shrinks while it is not 0.
C7_MonotoneNoOvershoot ==
  (bench.kind \in {"exp", "rf"} /\ bench.lastOp = "update" /\ bench.run >= 2)
    => LET a == Scalars(bench.kind, bench.prev[1])
           x == Scalars(bench.kind, bench.out[1])
           b == Scalars(bench.kind, bench.sample[1])
       IN  \A k \in DOMAIN a : Approaches(a[k], x[k], b[k])

\* the same target was fed three times in a row to a smoother that held
\* another value, with alpha < 1, and the value is still on its way
C7_Witness ==
  /\ bench.kind = "exp" /\ bench.lastOp = "update" /\ bench.run >= 3
  /\ bench.alpha # I(1)
  /\ bench.out # bench.sample /\ bench.out # bench.prev

(***************************************************************************)
(* URDFRobot: finger joints (curlToAngle, applyFingerAngles)               *)
(*                                                                         *)
(* A joint is absent (Null) or [limit, angle], limit being absent or       *)
(* Some([lower, upper]).  Finger angles are in units of DEG.  The joint    *)
(* setter belongs to the URDF loader: it stores the value, held to the     *)
(* limit unless the joint ignores limits.                                  *)
(***************************************************************************)
Sides == {"left", "right"}

FingerJoints ==
  {"thumb_0", "thumb_1", "thumb_2", "index_0", "index_1", "middle_0", "middle_1"}

Limit(lo, hi) == Some([lower |-> I(lo), upper |-> I(hi)])

Joint(limit) == Some([limit |-> limit, angle |-> I(0)])

setJointValue(joint, v, ignoreLimits) ==
  IF ignoreLimits \/ joint.limit = Null
  THEN [joint EXCEPT !.angle = v]
  ELSE [joint EXCEPT !.angle = clamp(v, joint.limit[1].lower, joint.limit[1].upper)]

\* if (!joint?.limit) return 0; the limit of larger magnitude, scaled by curl
curlToAngleByRange(joint, curl) ==
  IF joint = Null \/ joint[1].limit = Null THEN I(0)
  ELSE LET l == joint[1].limit[1]
       IN  QMul(QSub(l.upper, l.lower), curl)

curlToAngle(joint, curl) ==
  IF joint = Null \/ joint[1].limit = Null THEN I(0)
  ELSE LET l == joint[1].limit[1]
       IN  IF QLt(QAbs(l.upper), QAbs(l.lower))
           THEN QMul(l.lower, curl) ELSE QMul(l.upper, curl)

\* the value applyFingerAngles passes to each joint's setter (Null: no call);
\* signed = the variant that mirrors abduction by handedness
FingerCommands(joints, side, data, signed) ==
  LET t0    == joints["thumb_0"]
      sign  == IF signed /\ side = "right" THEN I(-1) ELSE I(1)
      range == QMin(QAbs(t0[1].limit[1].lower), QAbs(t0[1].limit[1].upper))
      curlOf == [n \in FingerJoints \ {"thumb_0"} |->
                  CASE n = "thumb_1"  -> data.thumb.curl[1]
                    [] n = "thumb_2"  -> data.thumb.curl[2]
                    [] n = "index_0"  -> data.index.curl[1]
                    [] n = "index_1"  -> data.index.curl[2]
                    [] n = "middle_0" -> data.middle.curl[1]
                    [] n = "middle_1" -> data.middle.curl[2]]
  IN  [n \in FingerJoints |->
        IF n = "thumb_0"
        THEN IF t0 # Null /\ t0[1].limit # Null
             THEN Some(clamp(QMul(QMul(sign, data.thumb.abduction), range),
                             t0[1].limit[1].lower, t0[1].limit[1].upper))
             ELSE Null
        ELSE IF joints[n] # Null THEN Some(curlToAngle(joints[n], curlOf[n]))
             ELSE Null]

applyFingerAngles(joints, side, data, signed, ignoreLimits) ==
  IF data = Null THEN joints
  ELSE
  Let([cmd \in {FingerCommands(joints, side, data[1], signed)} |->
  [n \in FingerJoints |->
    IF cmd[n] = Null THEN joints[n]
    ELSE Some(setJointValue(joints[n][1], cmd[n][1], ignoreLimits))]])

\* DEX31_JOINTS, the same ranges with the flexion direction mirrored, and a
\* hand whose ranges exclude 0, lacks a joint and has a joint without limit
Dex31Joints ==
  [n \in FingerJoints |->
    CASE n = "thumb_0" -> Joint(Limit(-60, 60))
      [] n = "thumb_1" -> Joint(Limit(-35, 60))
      [] n = "thumb_2" -> Joint(Limit(0, 100))
      [] n \in {"index_0", "middle_0"} -> Joint(Limit(0, 90))
      [] OTHER -> Joint(Limit(0, 100))]

Dex31Mirrored ==
  [n \in FingerJoints |->
    CASE n = "thumb_0" -> Joint(Limit(-60, 60))
      [] n = "thumb_1" -> Joint(Limit(-60, 35))
      [] n = "thumb_2" -> Joint(Limit(-100, 0))
      [] n \in {"index_0", "middle_0"} -> Joint(Limit(-90, 0))
      [] OTHER -> Joint(Limit(-100, 0))]

OffsetJoints ==
  [n \in FingerJoints |->
    CASE n = "thumb_0" -> Joint(Limit(10, 60))
      [] n = "thumb_1" -> Joint(Limit(20, 60))
      [] n = "thumb_2" -> Joint(Limit(-100, -10))
      [] n = "index_0" -> Joint(Limit(30, 90))
      [] n = "index_1" -> Null
      [] n = "middle_0" -> Joint(Null)
      [] OTHER -> Joint(Limit(-90, -30))]

JointTables == {Dex31Joints, Dex31Mirrored, OffsetJoints}

\* filtered HandShapes: curl in [0, 1], abduction in [-1, 1]
FingerShapes ==
  {Shape(a, c[1], c[2], c[3], c[4], c[5], c[6]) :
     a \in {I(-1), Q(-1, 2), I(0), I(1)},
     c \in {<<I(0), I(0), I(0), I(0), I(0), I(0)>>,
            <<Q(1, 2), Q(3, 5), Q(1, 3), Q(5, 6), I(1), Q(1, 2)>>,
            <<I(1), I(1), I(1), I(1), I(1), I(1)>>}}

InitFingers ==
  \E tbl \in JointTables, signed \in BOOLEAN, ign \in BOOLEAN :
    fingers = [mode |-> "hands", signed |-> signed, ignoreLimits |-> ign,
               joints |-> [s \in Sides |-> tbl],
               data |-> [s \in Sides |-> Null],
               cmd |-> [s \in Sides |-> [n \in FingerJoints |-> Null]]]

NotFingers == <<bench, arm, hand, tracker, robot>>

ApplyFingerAngles ==
  /\ UNCHANGED NotFingers
  /\ fingers.mode = "hands"
  /\ \E side \in Sides, data \in {Null} \cup {Some(d) : d \in FingerShapes} :
       fingers' =
         [fingers EXCEPT
            !.joints[side] = applyFingerAngles(@, side, data, fingers.signed,
                                               fingers.ignoreLimits),
            !.data[side] = data,
            !.cmd[side] = IF data = Null THEN [n \in FingerJoints |-> Null]
                          ELSE FingerCommands(fingers.joints[side], side, data[1],
                                              fingers.signed)]

NextFingers == ApplyFingerAngles

InitHands ==
  InitFingers /\ IdleBench /\ IdleArm /\ IdleHand /\ IdleTracker /\ IdleRobot

SpecFingers == InitHands /\ [][NextFingers]_vars

\* the limits of joint n of a side, when it has any
HasLimit(side, n) ==
  fingers.joints[side][n] # Null /\ fingers.joints[side][n][1].limit # Null

LimitOf(side, n) == fingers.joints[side][n][1].limit[1]

Within(v, l) == QLe(l.lower, v) /\ QLe(v, l.upper)

\* the original C2: the angle applyFingerAngles commits to a joint lies in
\* the joint's [lower, upper] for every limit pair with lower <= upper
C2_AnyLimitPair ==
  fingers.mode = "hands" =>
    \A side \in Sides, n \in FingerJoints :
      (HasLimit(side, n) /\ fingers.cmd[side][n] # Null)
        => Within(fingers.cmd[side][n][1], LimitOf(side, n))

\* C2 (amended): for every filtered HandShape with curl in [0, 1] and
\* abduction in [-1, 1], the angle applyFingerAngles commits to thumb_0 lies
\* in the joint's [lower, upper] for every limit pair, and the angle it commits
\* to a curl joint lies in the joint's [lower, upper] whenever that range
\* contains 0 (lower <= 0 <= upper), in both variants of applyFingerAngles.
C2_CommittedWithinLimits ==
  fingers.mode = "hands" =>
    \A side \in Sides, n \in FingerJoints :
      (/\ HasLimit(side, n) /\ fingers.cmd[side][n] # Null
       /\ n # "thumb_0" => Within(I(0), LimitOf(side, n)))
        => Within(fingers.cmd[side][n][1], LimitOf(side, n))

\* a right hand with asymmetric ranges was driven to a half-open shape: the
\* curl joints got angles strictly inside their ranges
C2_Witness ==
  /\ fingers.mode = "hands"
  /\ fingers.joints["right"] # OffsetJoints
  /\ fingers.data["right"] # Null
  /\ fingers.data["right"][1].thumb.curl[1] = Q(1, 2)
  /\ fingers.data["right"][1].thumb.abduction = I(1)
  /\ \A n \in FingerJoints : fingers.cmd["right"][n] # Null
  /\ fingers.cmd["right"]["thumb_1"][1] \notin {I(0), I(60), I(-60)}
  /\ fingers.cmd["right"]["thumb_0"][1] # I(0)

\* a number cut to four decimals, toward zero
RECURSIVE Digits(_, _, _, _)
\* q followed by k more decimal digits of r / d, for 0 <= r < d
Digits(q, r, d, k) ==
  IF k = 0 THEN q ELSE Digits(q * 10 + (r * 10) \div d, (r * 10) % d, d, k - 1)

\* a fraction of denominator above 10^8 is first brought below it
Fix(q) ==
  Let([x \in {q} |->
  Let([k \in {(x[2] \div 100000000) + 1} |->
  Let([d \in {x[2] \div k}, n \in {Abs(x[1]) \div k} |->
  Let([t \in {Digits(n \div d, n % d, d, 4)} |->
  Q(IF x[1] < 0 THEN -t ELSE t, 10000)])])])])

JsDiv(a, b) == Fix(QDiv(a, b))

VFix(v) == Let([x \in {v} |-> <<Fix(x[1]), Fix(x[2]), Fix(x[3])>>])

\* the angle thumb_0 of a side should get for abduction a: a * range with
\* range = min(|lower|, |upper|), negated for the right hand, clamped
MirroredAbduction(side, a) ==
  LET l     == LimitOf(side, "thumb_0")
      range == QMin(QAbs(l.lower), QAbs(l.upper))
  IN  clamp(IF side = "left" THEN QMul(a, range) ELSE QNeg(QMul(a, range)),
            l.lower, l.upper)

\* C20: thumb abduction is mirrored by handedness when it is mapped to a
\* joint angle: for the same filtered abduction a and the same thumb_0
\* limits, applyFingerAngles commits clamp(+a * range) to the left thumb_0 and
\* clamp(-a * range) to the right one, range = min(|lower|, |upper|).
C20_AbductionMirroredByHandedness ==
  fingers.mode = "hands" =>
    \A side \in Sides :
      (HasLimit(side, "thumb_0") /\ fingers.data[side] # Null)
        => fingers.cmd[side]["thumb_0"] =
             Some(MirroredAbduction(side, fingers.data[side][1].thumb.abduction))

(***************************************************************************)
(* TwoBoneIK: solveTwoBoneIK                                               *)
(*                                                                         *)
(* Positions are vectors of rationals (metres), carried to four decimals   *)
(* in differences and in the squared distance.  Lengths are exact for the  *)
(* vectors drawn below, whose norms are rational.  The elbow is returned in *)
(* polar form about the root: root + radius * (cos * dirToTarget +         *)
(* sin * perpAxis), held as its radius and cos; nan tells that the         *)
(* division of cosA was 0 / 0.                                             *)
(***************************************************************************)
\* r with the largest multiple of s, below 16 * s, whose square still fits
\* under n
SqrtDigit(r, s, n) ==
  Let([x \in {r} |->
  x + s * (CHOOSE k \in 0..15 :
             /\ x + k * s <= 46340 /\ (x + k * s) * (x + k * s) <= n
             /\ \/ k = 15
                \/ x + (k + 1) * s > 46340
                \/ (x + (k + 1) * s) * (x + (k + 1) * s) > n)])

\* the integer square root, found digit by digit in base 16
Isqrt(n) == SqrtDigit(SqrtDigit(SqrtDigit(SqrtDigit(0, 4096, n), 256, n), 16, n), 1, n)

\* Math.sqrt: exact when numerator and denominator are squares, else cut to
\* four decimals (for a denominator that divides 10^8)
QSqrt(q) ==
  Let([x \in {q} |->
  Let([n \in {Isqrt(x[1])}, d \in {Isqrt(x[2])} |->
  IF n * n = x[1] /\ d * d = x[2] THEN Q(n, d)
  ELSE Q(Isqrt(x[1] * (100000000 \div x[2])), 10000)])])

\* a point given in millimetres
P(x, y, z) == <<Q(x, 1000), Q(y, 1000), Q(z, 1000)>>

VDot(a, b) ==
  Let([x \in {a}, y \in {b} |-> QAdd(QAdd(QMul(x[1], y[1]), QMul(x[2], y[2])), QMul(x[3], y[3]))])

VCross(a, b) ==
  Let([x \in {a}, y \in {b} |-> <<QSub(QMul(x[2], y[3]), QMul(x[3], y[2])),
                      QSub(QMul(x[3], y[1]), QMul(x[1], y[3])),
                      QSub(QMul(x[1], y[2]), QMul(x[2], y[1]))>>])

VLengthSq(a) == Let([x \in {a} |-> VDot(x, x)])

VLength(a) == QSqrt(VLengthSq(a))

\* Vector3.normalize: divideScalar(length || 1)
VNormalize(a) ==
  Let([x \in {a} |->
  Let([l \in {VLength(x)} |->
  IF l = I(0) THEN x ELSE VScale(x, QDiv(I(1), l))])])

maxReachFull(L1, L2) == QAdd(L1, L2)

maxReach(L1, L2) == QMul(QAdd(L1, L2), Q(999, 1000))

minReach(L1, L2) == QMul(QAbs(QSub(L1, L2)), Q(1001, 1000))

solveTwoBoneIK(root, target, pole, L1, L2) ==
  Let([rootToTarget \in {VFix(VSub(target, root))},
       rootToPole   \in {VFix(VSub(pole, root))},
       maxDist      \in {maxReach(L1, L2)},
       minDist      \in {minReach(L1, L2)} |->
  Let([dist \in {VLength(rootToTarget)} |->
  Let([clampedDist \in {QMax(minDist, QMin(maxDist, dist))},
       reachable   \in {QLe(dist, maxDist)},
       dirToTarget \in {IF QLt(dist, Q(1, 1000)) THEN VNormalize(rootToPole)
                        ELSE VNormalize(rootToTarget)} |->
  Let([d       \in {Fix(clampedDist)},
       perpRaw \in {VFix(VSub(rootToPole,
                              VScale(dirToTarget, VDot(rootToPole, dirToTarget))))},
       up      \in {IF QLt(Q(9, 10), QAbs(VDot(dirToTarget, V(0, 1, 0))))
                   THEN V(1, 0, 0) ELSE V(0, 1, 0)},
       dirUnit \in {dirToTarget # VZero} |->
  Let([num \in {QSub(QAdd(QMul(L1, L1), QMul(d, d)), QMul(L2, L2))},
       den \in {QMul(QMul(I(2), L1), d)},
       \* is _perpAxis a unit vector after its normalize()
       perpUnit \in {IF QLt(VLengthSq(perpRaw), Q(1, 10000))
                     THEN VCross(up, dirToTarget) # VZero
                     ELSE TRUE} |->
  \* Math.max(-1, Math.min(1, cosA)), with x / 0 = +-Infinity
  Let([cosAngleA \in {IF den = I(0) THEN (IF QLt(num, I(0)) THEN I(-1) ELSE I(1))
                      ELSE clamp(QDiv(num, den), I(-1), I(1))} |->
  \* _elbowDir = dir * cos + perp * sin, normalized: zero only if both are
  Let([elbowUnit \in {(dirUnit /\ perpUnit)
                       \/ (dirUnit /\ cosAngleA # I(0))
                       \/ (perpUnit /\ cosAngleA \notin {I(1), I(-1)})} |->
  [elbowPos      |-> [radius |-> IF elbowUnit THEN L1 ELSE I(0),
                      cos    |-> IF dirUnit THEN cosAngleA ELSE I(0)],
   nan           |-> den = I(0) /\ num = I(0),
   reachable     |-> reachable,
   dirToTarget   |-> dirToTarget,
   clampedDist   |-> clampedDist,
   clampedTarget |-> VAdd(root, VScale(dirToTarget, clampedDist))]])])])])])])])

\* upper arm and forearm lengths
LinkLengths == {<<Q(1, 4), Q(1, 4)>>, <<Q(3, 10), Q(1, 5)>>, <<Q(1, 5), Q(3, 10)>>}

Roots == {P(0, 0, 0), P(172, 0, -10)}

\* offsets of the target from the root: far beyond reach in several
\* directions, just beyond maxReach, within reach, nearer than minReach, at
\* the root
TargetOffsets ==
  {P(1000, 0, 0), P(0, -600, 800), P(-480, 0, 360), P(0, 0, -500),
   P(0, 300, 400), P(400, 0, 0), P(0, -240, 320), P(0, 100, 0),
   P(30, 0, 0), P(0, 0, 0)}

\* offsets of the pole from the root: beside the arm, along +y, at the root
PoleOffsets == {P(600, 0, 0), P(0, 300, 400), P(0, 500, 0), P(0, 0, 0)}

InitArm ==
  \E l \in LinkLengths, r \in Roots :
    arm = [mode |-> "arm", L1 |-> l[1], L2 |-> l[2], root |-> r,
           target |-> Null, pole |-> Null, ik |-> Null]

NotArm == <<bench, fingers, hand, tracker, robot>>

SolveTwoBoneIK ==
  /\ UNCHANGED NotArm
  /\ arm.mode = "arm"
  /\ \E t \in TargetOffsets, p \in PoleOffsets :
       LET target == VAdd(arm.root, t)
           pole   == VAdd(arm.root, p)
       IN  arm' = [arm EXCEPT !.target = Some(target), !.pole = Some(pole),
                              !.ik = Some(solveTwoBoneIK(arm.root, target, pole,
                                                         arm.L1, arm.L2))]

NextArm == SolveTwoBoneIK

InitTwoBone ==
  InitArm /\ IdleBench /\ IdleFingers /\ IdleHand /\ IdleTracker /\ IdleRobot

SpecTwoBone == InitTwoBone /\ [][NextArm]_vars

\* the distance of the last target from the root
TargetDist == VLength(VSub(arm.target[1], arm.root))

\* C8: for any target farther from the root than (L1 + L2) * 0.999,
\* solveTwoBoneIK returns reachable = false and a clampedTarget on the
\* root-to-target ray at distance (L1 + L2) * 0.999 from the root, with the
\* elbow at distance L1 from the root and no NaN in the result.
C8_UnreachableClamped ==
  (/\ arm.mode = "arm" /\ arm.ik # Null
   /\ QLt(QMul(QAdd(arm.L1, arm.L2), Q(999, 1000)), TargetDist))
    => LET r == arm.ik[1]
           d == QMul(QAdd(arm.L1, arm.L2), Q(999, 1000))
       IN  /\ r.reachable = FALSE
           /\ VSub(r.clampedTarget, arm.root)
                = VScale(VSub(arm.target[1], arm.root), QDiv(d, TargetDist))
           /\ VLength(VSub(r.clampedTarget, arm.root)) = d
           /\ r.elbowPos.radius = arm.L1
           /\ ~r.nan

\* a target 1.0 m from a shoulder that is not at the origin, in a direction
\* off the axes, against L1 + L2 = 0.5 m with unequal links
C8_Witness ==
  /\ arm.mode = "arm" /\ arm.ik # Null
  /\ arm.root # P(0, 0, 0) /\ arm.L1 # arm.L2
  /\ VSub(arm.target[1], arm.root) = P(0, -600, 800)
  /\ TargetDist = I(1)
  /\ ~arm.ik[1].reachable
  /\ arm.ik[1].clampedTarget = VAdd(arm.root, <<I(0), Q(-2997, 10000), Q(999, 2500)>>)

\* C27: solveTwoBoneIK reports reachable = true only when the target was not
\* clamped: whenever the distance it solves for (clampedDist) differs from
\* the requested root-to-target distance, because that is above
\* (L1 + L2) * 0.999 or below |L1 - L2| * 1.001, reachable is false.
C27_ReachableOnlyUnclamped ==
  (arm.mode = "arm" /\ arm.ik # Null) =>
    LET r == arm.ik[1]
    IN  (\/ r.clampedDist # TargetDist
         \/ QLt(maxReach(arm.L1, arm.L2), TargetDist)
         \/ QLt(TargetDist, minReach(arm.L1, arm.L2)))
          => r.reachable = FALSE

(***************************************************************************)
(* HandRetargeting: measureCurl, measureJointBend, retargetHand            *)
(*                                                                         *)
(* A hand frame is absent or maps each joint name to an absent or present  *)
(* position.  Quotients and dot products are cut to four decimals (toward  *)
(* zero), Math.acos(c) / PI is tabulated at |c| = 0, 1/2, 4/5, 19/20,      *)
(* 99/100, 1 and linear between, and PI is 355 / 113.                      *)
(***************************************************************************)
\* the unit vector a.sub(b).normalize()
Toward(a, b) == VFix(VNormalize(VFix(VSub(a, b))))

Pi == Q(355, 113)

\* the line through (c0, v0) and (c1, v1), at c
Lin(c, c0, v0, c1, v1) ==
  QAdd(v0, QMul(QSub(c, c0), QDiv(QSub(v1, v0), QSub(c1, c0))))

\* Math.acos(c) / PI for 0 <= c <= 1
AcosOverPiPos(c) ==
  IF QLe(c, Q(1, 2)) THEN Lin(c, I(0), Q(1, 2), Q(1, 2), Q(1, 3))
  ELSE IF QLe(c, Q(4, 5)) THEN Lin(c, Q(1, 2), Q(1, 3), Q(4, 5), Q(205, 1000))
  ELSE IF QLe(c, Q(19, 20)) THEN Lin(c, Q(4, 5), Q(205, 1000), Q(19, 20), Q(101, 1000))
  ELSE IF QLe(c, Q(99, 100)) THEN Lin(c, Q(19, 20), Q(101, 1000), Q(99, 100), Q(45, 1000))
  ELSE Lin(c, Q(99, 100), Q(45, 1000), I(1), I(0))

AcosOverPi(c) ==
  Let([x \in {c} |->
  Let([a \in {AcosOverPiPos(QAbs(x))} |->
  Fix(IF QLe(I(0), x) THEN a ELSE QSub(I(1), a))])])

\* Vector3.distanceTo, and a signed lateral difference in its place
distanceLateral(a, b) == QSub(a[1], b[1])

distanceTo(a, b) == VLength(VFix(VSub(a, b)))

measureCurlUnclamped(metacarpal, proximal, tip) ==
  Let([fingerLength \in {QAdd(distanceTo(metacarpal, proximal), distanceTo(proximal, tip))} |->
  IF QLt(fingerLength, Q(1, 1000)) THEN I(0)
  ELSE
  Let([directDist \in {distanceTo(metacarpal, tip)} |->
  Let([ratio \in {JsDiv(directDist, fingerLength)} |->
  JsDiv(QSub(Q(92, 100), ratio), Q(60, 100))])])])

measureCurl(metacarpal, proximal, tip) ==
  Let([fingerLength \in {QAdd(distanceTo(metacarpal, proximal), distanceTo(proximal, tip))} |->
  IF QLt(fingerLength, Q(1, 1000)) THEN I(0)
  ELSE
  Let([directDist \in {distanceTo(metacarpal, tip)} |->
  Let([ratio \in {JsDiv(directDist, fingerLength)} |->
  clamp(JsDiv(QSub(Q(92, 100), ratio), Q(60, 100)), I(0), I(1))])])])

measureJointBend(A, B, C) ==
  Let([v0 \in {Toward(A, B)} |->
  Let([v1 \in {Toward(C, B)} |->
  Let([dot \in {Fix(VDot(v0, v1))} |->
  Let([angle \in {AcosOverPi(clamp(dot, I(-1), I(1)))} |->
  clamp(JsDiv(QSub(I(1), angle), Q(6, 10)), I(0), I(1))])])])])

\* the earlier angle-based abduction measure
measureThumbAbduction(wrist, indexMeta, thumbProx) ==
  Let([v0 \in {Toward(indexMeta, wrist)} |->
  Let([v1 \in {Toward(thumbProx, wrist)} |->
  Let([cross \in {VFix(VCross(v0, v1))} |->
  Let([palmNormal \in {VFix(VNormalize(cross))} |->
  Let([dot \in {Fix(VDot(v0, v1))} |->
  Let([angle \in {QMul(Pi, AcosOverPi(clamp(dot, I(-1), I(1))))} |->
  Let([sign \in {IF QLt(I(0), VDot(cross, palmNormal)) THEN I(1) ELSE I(-1)} |->
  Let([raw \in {JsDiv(QSub(angle, Q(75, 100)), Q(7, 10))} |->
  clamp(QMul(raw, sign), I(-1), I(1))])])])])])])])])

JointNames ==
  <<"wrist", "thumb-metacarpal", "thumb-phalanx-proximal", "thumb-phalanx-distal",
    "thumb-tip", "index-finger-metacarpal", "index-finger-phalanx-proximal",
    "index-finger-phalanx-intermediate", "index-finger-phalanx-distal",
    "index-finger-tip", "middle-finger-metacarpal", "middle-finger-phalanx-proximal",
    "middle-finger-phalanx-intermediate", "middle-finger-phalanx-distal",
    "middle-finger-tip">>

Names == {JointNames[k] : k \in DOMAIN JointNames}

retargetHand(joints) ==
  IF joints = Null THEN Shape(I(0), I(0), I(0), I(0), I(0), I(0), I(0))
  ELSE
  LET get(name)  == joints[1][name]
      has(names) == \A n \in names : get(n) # Null
      pos(name)  == get(name)[1]
      wrist      == "wrist"
      thumbMeta  == "thumb-metacarpal"
      thumbProx  == "thumb-phalanx-proximal"
      thumbDist  == "thumb-phalanx-distal"
      thumbTip   == "thumb-tip"
      indexMeta  == "index-finger-metacarpal"
      indexProx  == "index-finger-phalanx-proximal"
      indexMid   == "index-finger-phalanx-intermediate"
      indexDist  == "index-finger-phalanx-distal"
      indexTip   == "index-finger-tip"
      middleMeta == "middle-finger-metacarpal"
      middleProx == "middle-finger-phalanx-proximal"
      middleMid  == "middle-finger-phalanx-intermediate"
      middleDist == "middle-finger-phalanx-distal"
      middleTip  == "middle-finger-tip"
      thumb      == has({wrist, thumbMeta, thumbProx, thumbDist, thumbTip, indexMeta})
      index      == has({indexMeta, indexProx, indexMid, indexDist, indexTip})
      middle     == has({middleMeta, middleProx, middleMid, middleDist, middleTip})
      abduction  ==
        IF thumb /\ has({indexProx, middleMeta})
        THEN Let([handSpan \in {distanceTo(pos(wrist), pos(middleMeta))} |->
             IF QLt(Q(1, 100), handSpan)
             THEN Let([thumbToIndex \in {distanceTo(pos(thumbProx), pos(indexProx))} |->
                  Let([ratio \in {JsDiv(thumbToIndex, handSpan)} |->
                  clamp(JsDiv(QSub(ratio, Q(75, 100)), Q(35, 100)), I(-1), I(1))])])
             ELSE I(0)])
        ELSE I(0)
      pinchBoost ==
        IF has({indexTip})
        THEN Let([pinchDist \in {distanceTo(pos(thumbTip), pos(indexTip))} |->
             QMul(clamp(QSub(I(1), JsDiv(pinchDist, Q(6, 100))), I(0), I(1)), Q(1, 2))])
        ELSE I(0)
      thumbCurl  ==
        IF thumb
        THEN Let([thumbLen \in {QAdd(QAdd(distanceTo(pos(thumbMeta), pos(thumbProx)),
                           distanceTo(pos(thumbProx), pos(thumbDist))),
                      distanceTo(pos(thumbDist), pos(thumbTip)))} |->
             IF QLt(Q(1, 100), thumbLen)
             THEN Let([tipToWrist \in {distanceTo(pos(thumbTip), pos(wrist))} |->
                  Let([nearness \in {JsDiv(tipToWrist, QMul(thumbLen, Q(13, 10)))} |->
                  Let([generalCurl \in {clamp(QSub(I(1), nearness), I(0), I(1))} |->
                  Let([totalCurl \in {clamp(QAdd(generalCurl, pinchBoost), I(0), I(1))} |->
                  <<totalCurl, clamp(QMul(totalCurl, Q(12, 10)), I(0), I(1))>>])])])])
             ELSE <<I(0), I(0)>>])
        ELSE <<I(0), I(0)>>
      indexCurl  ==
        IF index
        THEN <<measureCurl(pos(indexMeta), pos(indexProx), pos(indexTip)),
               measureJointBend(pos(indexMid), pos(indexDist), pos(indexTip))>>
        ELSE <<I(0), I(0)>>
      middleCurl ==
        IF middle
        THEN <<measureCurl(pos(middleMeta), pos(middleProx), pos(middleTip)),
               measureJointBend(pos(middleMid), pos(middleDist), pos(middleTip))>>
        ELSE <<I(0), I(0)>>
  IN  Let([abd \in {abduction} |->
      Let([t \in {thumbCurl} |->
      Let([i \in {indexCurl} |->
      Let([m \in {middleCurl} |->
      Shape(abd, t[1], t[2], i[1], i[2], m[1], m[2])])])])])

\* the abduction of the earlier retargetHand, which calls measureThumbAbduction
retargetHandEarlierAbduction(joints) ==
  IF joints = Null THEN I(0)
  ELSE LET get(name) == joints[1][name]
       IN  IF \A n \in {"wrist", "thumb-metacarpal", "thumb-phalanx-proximal",
                        "thumb-phalanx-distal", "thumb-tip",
                        "index-finger-metacarpal"} : get(n) # Null
           THEN measureThumbAbduction(get("wrist")[1], get("index-finger-metacarpal")[1],
                                      get("thumb-phalanx-proximal")[1])
           ELSE I(0)

(***************************************************************************)
(* One tracked hand: a frame that changes joint by joint, retargetHand on  *)
(* it (and on its mirror image), and the RetargetingFilter fed with the    *)
(* result.                                                                 *)
(*   joints       the frame, absent or name -> absent / position           *)
(*   last         RetargetingFilter.last                                   *)
(*   raw          retargetHand(joints) of the last Retarget, absent once   *)
(*                the frame has changed                                    *)
(*   mirrored     retargetHand of the mirror image of joints, with the     *)
(*                abductions <<of joints, of the mirror image>> by the     *)
(*                earlier measure                                          *)
(***************************************************************************)
MaxEdits == 1

MaxUpdates == 2

Pose(points) == Some([n \in Names |->
                       Some(points[CHOOSE k \in DOMAIN JointNames : JointNames[k] = n])])

OpenHand ==
  Pose(<<P(0, 0, 0), P(25, 20, 0), P(55, 45, 0), P(75, 70, 0), P(90, 90, 0),
         P(20, 55, 0), P(25, 95, 0), P(27, 135, 0), P(28, 160, 0), P(29, 180, 0),
         P(0, 60, 0), P(0, 100, 0), P(0, 145, 0), P(0, 172, 0), P(0, 195, 0)>>)

Fist ==
  Pose(<<P(0, 0, 0), P(25, 20, 0), P(45, 40, -10), P(40, 60, -30), P(30, 70, -45),
         P(20, 55, 0), P(25, 95, 0), P(25, 110, -35), P(25, 90, -50), P(25, 75, -40),
         P(0, 60, 0), P(0, 100, 0), P(0, 115, -40), P(0, 95, -55), P(0, 80, -40)>>)

Pinch ==
  Pose(<<P(0, 0, 0), P(25, 20, 0), P(35, 60, -10), P(40, 85, -30), P(38, 100, -45),
         P(20, 55, 0), P(25, 95, 0), P(27, 120, -30), P(30, 115, -50), P(35, 105, -50),
         P(0, 60, 0), P(0, 100, 0), P(0, 140, -15), P(0, 160, -35), P(0, 170, -55)>>)

\* every joint reported at one point
Collapsed == Pose([k \in DOMAIN JointNames |-> P(-40, 60, 30)])

\* a frame that reports neither the wrist nor the middle finger tip
Sparse ==
  Some([Pinch[1] EXCEPT !["wrist"] = Null, !["middle-finger-tip"] = Null])

Poses == {OpenHand, Fist, Pinch, Collapsed, Sparse}

\* where a noisy frame may put a joint
EditPoints == {P(0, 0, 0), P(-40, 60, 30), P(29, 180, 0)}

\* alpha of the controllers' RetargetingFilter objects
RetargetAlphas == {Q(2, 5), Q(18, 100)}

\* the frame with the lateral axis negated in every joint position
Mirror(joints) ==
  IF joints = Null THEN Null
  ELSE Some([n \in Names |->
              IF joints[1][n] = Null THEN Null
              ELSE Some(<<QNeg(joints[1][n][1][1]), joints[1][n][1][2],
                          joints[1][n][1][3]>>)])

InitHand ==
  \E pose \in Poses, a \in RetargetAlphas :
    hand = [mode |-> "hand", alpha |-> a, joints |-> pose, edits |-> 0,
            updates |-> 0, last |-> Null, raw |-> Null, mirrored |-> Null,
            earlier |-> Null]

NotHand == <<bench, fingers, arm, tracker, robot>>

Edited(joints) ==
  [hand EXCEPT !.joints = joints, !.edits = @ + 1, !.raw = Null,
               !.mirrored = Null, !.earlier = Null]

SetJoint ==
  /\ UNCHANGED NotHand
  /\ hand.mode = "hand" /\ hand.edits < MaxEdits /\ hand.joints # Null
  /\ \E n \in Names, pt \in EditPoints :
       hand' = Edited(Some([hand.joints[1] EXCEPT ![n] = Some(pt)]))

DropJoint ==
  /\ UNCHANGED NotHand
  /\ hand.mode = "hand" /\ hand.edits < MaxEdits /\ hand.joints # Null
  /\ \E n \in Names :
       hand' = Edited(Some([hand.joints[1] EXCEPT ![n] = Null]))

DropFrame ==
  /\ UNCHANGED NotHand
  /\ hand.mode = "hand" /\ hand.edits < MaxEdits /\ hand.joints # Null
  /\ hand' = Edited(Null)

Retarget ==
  /\ UNCHANGED NotHand
  /\ hand.mode = "hand" /\ hand.updates < MaxUpdates
  /\ LET Filtered(rawAngles) ==
           [hand EXCEPT
              !.raw = Some(rawAngles), !.updates = @ + 1,
              !.last = RetargetingFilterUpdate(hand.last, hand.alpha, rawAngles)]
     IN  hand' = Let([rawAngles \in {retargetHand(hand.joints)} |-> Filtered(rawAngles)])

RetargetMirrored ==
  /\ UNCHANGED NotHand
  /\ hand.mode = "hand" /\ hand.mirrored = Null
  /\ hand' = [hand EXCEPT
                !.mirrored = Some(retargetHand(Mirror(hand.joints))),
                !.earlier = Some(<<retargetHandEarlierAbduction(hand.joints),
                                   retargetHandEarlierAbduction(Mirror(hand.joints))>>)]

NextHand == SetJoint \/ DropJoint \/ DropFrame \/ Retarget \/ RetargetMirrored

InitRetarget ==
  InitHand /\ IdleBench /\ IdleFingers /\ IdleArm /\ IdleTracker /\ IdleRobot

SpecRetarget == InitRetarget /\ [][NextHand]_vars

Unit(x) == QLe(I(0), x) /\ QLe(x, I(1))

ShapeInRange(x) ==
  /\ QLe(I(-1), x.thumb.abduction) /\ QLe(x.thumb.abduction, I(1))
  /\ \A k \in 1..2 : Unit(x.thumb.curl[k]) /\ Unit(x.index.curl[k]) /\ Unit(x.middle.curl[k])

\* C3: for every frame given to retargetHand (any subset of the joints
\* present, coincident or otherwise degenerate positions, no frame at all)
\* every curl of the returned HandShape is in [0, 1] and thumb.abduction is in
\* [-1, 1], and every field of the RetargetingFilter's value is in the same
\* range after every update with such shapes.
C3_ShapeInRange ==
  hand.mode = "hand" =>
    /\ hand.raw # Null => ShapeInRange(hand.raw[1])
    /\ hand.last # Null => ShapeInRange(hand.last[1])

\* a second update of the filter, with the shape of a frame that lacks a
\* joint and differs from the frame of the first update: the index curls fell
\* back to 0, the abduction is tucked, and the filter value is on its way
C3_Witness ==
  /\ hand.mode = "hand" /\ hand.updates = 2 /\ hand.edits >= 1
  /\ hand.raw # Null /\ hand.joints # Null
  /\ hand.joints[1]["index-finger-tip"] = Null
  /\ hand.last # hand.raw
  /\ hand.raw[1].index.curl = <<I(0), I(0)>>
  /\ QLt(hand.raw[1].thumb.abduction, I(0)) /\ QLt(I(-1), hand.raw[1].thumb.abduction)
  /\ hand.last[1].index.curl[1] \notin {I(0), I(1)}
  /\ hand.raw[1].middle.curl[2] \notin {I(0), I(1)}

\* the joints whose poses the guards of retargetHand ask for, by field
ThumbJoints ==
  {"wrist", "thumb-metacarpal", "thumb-phalanx-proximal", "thumb-phalanx-distal",
   "thumb-tip", "index-finger-metacarpal"}

AbductionJoints ==
  ThumbJoints \cup {"index-finger-phalanx-proximal", "middle-finger-metacarpal"}

CurlJoints(finger) ==
  {finger \o "-finger-metacarpal", finger \o "-finger-phalanx-proximal",
   finger \o "-finger-phalanx-intermediate", finger \o "-finger-phalanx-distal",
   finger \o "-finger-tip"}

\* the frame lacks the pose of one of the joints
Missing(joints, names) == joints = Null \/ \E n \in names : joints[1][n] = Null

\* a number, as opposed to NaN: a ratio of integers with a positive denominator
IsNumber(x) == x \in Int \X Int /\ x[2] > 0

\* the two curls of a finger whose joints are all there
CurlsOf(joints, finger) ==
  <<measureCurl(joints[1][finger \o "-finger-metacarpal"][1],
                joints[1][finger \o "-finger-phalanx-proximal"][1],
                joints[1][finger \o "-finger-tip"][1]),
    measureJointBend(joints[1][finger \o "-finger-phalanx-intermediate"][1],
                     joints[1][finger \o "-finger-phalanx-distal"][1],
                     joints[1][finger \o "-finger-tip"][1])>>

\* C15: for every field of the HandShape retargetHand returns, if the frame
\* lacks the pose of a joint the field requires, the field has the default 0
\* of a fresh result; every field of the result is a number; and the curls of
\* a finger whose joints are all present are computed whatever is missing of
\* the other fingers.
C15_MissingJointLeavesDefault ==
  (hand.mode = "hand" /\ hand.raw # Null) =>
    LET r == hand.raw[1]
        j == hand.joints
    IN  /\ Missing(j, AbductionJoints) => r.thumb.abduction = I(0)
        /\ Missing(j, ThumbJoints) => r.thumb.curl = <<I(0), I(0)>>
        /\ Missing(j, CurlJoints("index")) => r.index.curl = <<I(0), I(0)>>
        /\ Missing(j, CurlJoints("middle")) => r.middle.curl = <<I(0), I(0)>>
        /\ ~Missing(j, CurlJoints("index")) => r.index.curl = CurlsOf(j, "index")
        /\ ~Missing(j, CurlJoints("middle")) => r.middle.curl = CurlsOf(j, "middle")
        /\ IsNumber(r.thumb.abduction)
        /\ \A k \in 1..2 : /\ IsNumber(r.thumb.curl[k])
                            /\ IsNumber(r.index.curl[k])
                            /\ IsNumber(r.middle.curl[k])

\* retargetHand on a frame without the wrist and the middle finger tip: the
\* thumb and middle fields are at 0 and the index curls are computed
C15_Witness ==
  /\ hand.mode = "hand" /\ hand.raw # Null /\ hand.joints # Null
  /\ hand.joints[1]["wrist"] = Null
  /\ hand.joints[1]["middle-finger-tip"] = Null
  /\ ~Missing(hand.joints, CurlJoints("index"))
  /\ hand.raw[1].thumb = [abduction |-> I(0), curl |-> <<I(0), I(0)>>]
  /\ hand.raw[1].middle.curl = <<I(0), I(0)>>
  /\ hand.raw[1].index.curl[1] # I(0) /\ hand.raw[1].index.curl[2] # I(0)

SameCurls(x, y) ==
  /\ x.thumb.curl = y.thumb.curl
  /\ x.index.curl = y.index.curl
  /\ x.middle.curl = y.middle.curl

HandImpedanceNew ==
  [wristPos |-> [pos |-> Null, vel |-> VZero], wristQuat |-> Null]

HandImpedanceUpdate(imp, rawPos, rawQuat, dt) ==
  Let([wristPos \in {SpringDamperUpdate(imp.wristPos, rawPos, dt)} |->
  Let([wristQuat \in {QuaternionSmootherUpdate(imp.wristQuat, Q(10, 100), rawQuat)} |->
  [wristPos |-> wristPos, wristQuat |-> wristQuat]])])

HandImpedanceReset(imp) ==
  [wristPos  |-> SpringDamperReset(imp.wristPos, Null),
   wristQuat |-> QuaternionSmootherReset(Null)]

(***************************************************************************)
(* HandTracker.jsx: the frame handler.  Each frame the XR session lists,   *)
(* per hand, no hand source ("none"), a hand source whose wrist joint has  *)
(* no pose ("nowrist"), or a hand source with a frame of joint poses.  The *)
(* camera stands at the origin with no yaw.  Beside the objects of the     *)
(* component each hand's record keeps what the frame observed: the sample  *)
(* (raw), the filters as impedance.update and retarget.update found them   *)
(* (atUpdate), the pose impedance.update returned (smooth), what the hand  *)
(* had in this frame and in the one before (now, prev: "wrist" for a wrist *)
(* pose, "noxr" for a frame without an XR frame), and what it had in the   *)
(* frames since its last wrist pose (gap).                                 *)
(***************************************************************************)
MaxTicks == 3

\* G1.upperArmLength, G1.forearmLength
G1 == [upperArmLength |-> Q(250, 1000), forearmLength |-> Q(218, 1000)]

\* camera.position
CameraPosition == P(0, 0, 0)

\* _shoulderL, _shoulderR: SHOULDER_X, SHOULDER_Y, SHOULDER_Z from the camera
Shoulder(side) ==
  VAdd(CameraPosition,
       IF side = "left" THEN P(150, -326, -10) ELSE P(-150, -326, -10))

getLeftElbowPole(shoulderWorld) == VAdd(shoulderWorld, P(600, -300, -300))

getRightElbowPole(shoulderWorld) == VAdd(shoulderWorld, P(-600, -300, -300))

\* a frame of joint poses: the joints of a pose carried to a wrist position
Placed(pose, at) ==
  Some([n \in Names |->
         IF pose[1][n] = Null THEN Null ELSE Some(VAdd(pose[1][n][1], at))])

\* what a hand source reports in a frame: joint positions, wrist orientation
TrackSamples ==
  [A |-> [joints |-> Placed(OpenHand, P(200, -400, -300)), quaternion |-> I(0)],
   B |-> [joints |-> Placed(Fist, P(300, -100, -400)), quaternion |-> Q(1, 4)]]

HandInputs(side) ==
  IF side = "left" THEN {"none", "nowrist"} \cup DOMAIN TrackSamples
  ELSE {"none"} \cup DOMAIN TrackSamples

\* the frame's delta, in seconds
Deltas == {Q(1, 20), Q(1, 10)}

\* the armScale prop
ArmScales == {I(1), Q(4, 5)}

FreshHand ==
  [impedance |-> HandImpedanceNew, retarget |-> Null, hadHand |-> FALSE,
   pushed |-> Null, raw |-> Null, prevRaw |-> Null, atUpdate |-> Null,
   smooth |-> Null, now |-> "start", prev |-> "start", gap |-> "start"]

InitTracker ==
  \E scale \in ArmScales :
    tracker = [mode |-> "tracker", armScale |-> scale, ticks |-> 0,
               hands |-> [side \in Sides |-> FreshHand]]

NotTracker == <<bench, fingers, arm, hand, robot>>

\* what the frame observed of a hand it did not process
Unprocessed(h, why) ==
  [h EXCEPT !.prev = h.now, !.now = why,
            !.prevRaw = IF h.now = "wrist" THEN h.raw ELSE h.prevRaw,
            !.raw = Null, !.atUpdate = Null, !.smooth = Null,
            !.gap = IF h.now \in {"wrist", "start"} THEN why
                    ELSE IF h.gap = why THEN why ELSE "mixed"]

\* the body of the loop over session.inputSources for a source with a wrist pose
ProcessHand(side, h, sample, delta, armScale) ==
  Let([wristPos  \in {sample.joints[1]["wrist"][1]},
       wristQuat \in {sample.quaternion},
       shoulder  \in {Shoulder(side)},
       rawAngles \in {retargetHand(sample.joints)} |->
  Let([seeded \in {IF ~h.hadHand
                   THEN [wristPos  |-> SpringDamperReset(h.impedance.wristPos,
                                                         Some(wristPos)),
                         wristQuat |-> QuaternionSmootherReset(Some(wristQuat))]
                   ELSE h.impedance},
       pole   \in {IF side = "left" THEN getLeftElbowPole(shoulder)
                   ELSE getRightElbowPole(shoulder)},
       smoothAngles \in {RetargetingFilterUpdate(h.retarget, Q(18, 100), rawAngles)} |->
  Let([updated \in {HandImpedanceUpdate(seeded, wristPos, wristQuat,
                                        QMin(delta, Q(5, 100)))} |->
  Let([smoothPos \in {IF armScale # I(1)
                      THEN VAdd(VScale(VSub(updated.wristPos.pos[1], shoulder),
                                       armScale), shoulder)
                      ELSE updated.wristPos.pos[1]} |->
  Let([ik \in {solveTwoBoneIK(shoulder, smoothPos, pole,
                              G1.upperArmLength, G1.forearmLength)} |->
  [impedance |-> [updated EXCEPT !.wristPos.pos = Some(smoothPos)],
   retarget  |-> smoothAngles,
   hadHand   |-> TRUE,
   pushed    |-> Some([shoulderWorld |-> shoulder,
                       elbowWorld    |-> ik.elbowPos,
                       wristWorld    |-> smoothPos,
                       wristQuat     |-> updated.wristQuat[1],
                       fingerAngles  |-> smoothAngles[1]]),
   raw       |-> Some([position |-> wristPos, quaternion |-> wristQuat]),
   prevRaw   |-> IF h.now = "wrist" THEN h.raw ELSE h.prevRaw,
   atUpdate  |-> Some([wristPos  |-> seeded.wristPos,
                       wristQuat |-> seeded.wristQuat,
                       retarget  |-> h.retarget]),
   smooth    |-> Some([position   |-> updated.wristPos.pos[1],
                       quaternion |-> updated.wristQuat[1]]),
   now       |-> "wrist",
   prev      |-> h.now,
   gap       |-> h.gap]])])])])])

\* one hand through a frame: the loop body, then the reset for a vanished hand
HandFrame(side, h, input, delta, armScale) ==
  IF input = "none"
  THEN LET u == Unprocessed(h, "none")
       IN  IF h.hadHand
           THEN [u EXCEPT !.impedance = HandImpedanceReset(h.impedance),
                          !.hadHand = FALSE]
           ELSE u
  ELSE IF input = "nowrist" THEN Unprocessed(h, "nowrist")
  ELSE ProcessHand(side, h, TrackSamples[input], delta, armScale)

\* useFrame with an XR frame and session
TrackerFrame ==
  /\ UNCHANGED NotTracker
  /\ tracker.mode = "tracker" /\ tracker.ticks < MaxTicks
  /\ \E l \in HandInputs("left"), r \in HandInputs("right"), delta \in Deltas :
       tracker' = [tracker EXCEPT
         !.ticks = @ + 1,
         !.hands = [side \in Sides |->
                      HandFrame(side, tracker.hands[side],
                                IF side = "left" THEN l ELSE r,
                                delta, tracker.armScale)]]

\* useFrame without an XR frame, session or reference space: it returns
TrackerFrameNoXR ==
  /\ UNCHANGED NotTracker
  /\ tracker.mode = "tracker" /\ tracker.ticks < MaxTicks
  /\ tracker' = [tracker EXCEPT
       !.ticks = @ + 1,
       !.hands = [side \in Sides |-> Unprocessed(tracker.hands[side], "noxr")]]

NextTracker == TrackerFrame \/ TrackerFrameNoXR

InitHandTracker ==
  InitTracker /\ IdleBench /\ IdleFingers /\ IdleArm /\ IdleHand /\ IdleRobot

SpecTracker == InitHandTracker /\ [][NextTracker]_vars

\* the hand has a wrist pose again after frames in which its source was
\* missing or reported no wrist pose, and it had a wrist pose before them
Reacquired(h) ==
  /\ h.now = "wrist" /\ h.prev \in {"none", "nowrist"}
  /\ h.gap \in {"none", "nowrist", "mixed"} /\ h.prevRaw # Null

\* C4: a hand whose wrist was tracked, then absent for one or more frames,
\* then tracked again at a new pose gets, as the first filtered wrist
\* position and orientation after re-acquisition, the new raw sample itself
\* and not an interpolation from the value held before the loss.
C4_ReacquisitionSnaps ==
  tracker.mode = "tracker" =>
    \A side \in Sides :
      LET h == tracker.hands[side]
      IN  (Reacquired(h) /\ h.raw # h.prevRaw) => h.smooth = h.raw

\* as impedance.update and retarget.update found them, the filters hold
\* nothing of an earlier frame: each is uninitialized, or was seeded in this
\* frame with the frame's own sample
HoldsNothingOlder(h) ==
  /\ h.atUpdate[1].wristPos.pos \in {Null, Some(h.raw[1].position)}
  /\ h.atUpdate[1].wristPos.vel = VZero
  /\ h.atUpdate[1].wristQuat \in {Null, Some(h.raw[1].quaternion)}
  /\ h.atUpdate[1].retarget = Null

\* C5: no filter of a hand is advanced across a tracking-loss gap: when
\* update is applied to the wrist position, wrist orientation or hand shape
\* filter in a frame whose previous frame had no wrist pose for the hand
\* (source missing, or present without a wrist pose), the filter holds no
\* state from before that frame.
C5_NoUpdateAcrossGap ==
  tracker.mode = "tracker" =>
    \A side \in Sides :
      LET h == tracker.hands[side]
      IN  (h.now = "wrist" /\ h.prev \in {"none", "nowrist"}) => HoldsNothingOlder(h)

\* the hand had a wrist pose in the frame before and has none in this one
WristLost(h) == h.prev = "wrist" /\ h.now \in {"none", "nowrist"}

\* the filters of a hand as constructed: nothing held
FiltersUninitialized(h) ==
  /\ h.impedance.wristPos.pos = Null /\ h.impedance.wristPos.vel = VZero
  /\ h.impedance.wristQuat = Null
  /\ h.retarget = Null

\* C13: when one hand's wrist tracking is lost in a frame while the other
\* hand is tracked, the lost hand's filters (wrist position, wrist
\* orientation, hand shape) are back in the uninitialized state after the
\* frame, and the other hand's filters are not reset: they hold the state
\* its own sample produced.
C13_LostHandFiltersReset ==
  tracker.mode = "tracker" =>
    \A side \in Sides :
      LET h == tracker.hands[side]
          o == tracker.hands[IF side = "left" THEN "right" ELSE "left"]
      IN  (WristLost(h) /\ o.now = "wrist") =>
            /\ FiltersUninitialized(h)
            /\ o.hadHand /\ o.retarget # Null
            /\ o.impedance.wristPos.pos # Null /\ o.impedance.wristQuat # Null

\* C26: a wrist filter's state changes only through its own update and
\* reset: after a frame that processed a hand, the position its wrist filter
\* holds, from which its next update starts, is the one its update of this
\* frame produced; the arm-scale adjustment of the filtered position toward
\* the shoulder does not alter it.
C26_FilterStateOwnedByFilter ==
  tracker.mode = "tracker" =>
    \A side \in Sides :
      LET h == tracker.hands[side]
      IN  (h.now = "wrist" /\ h.smooth # Null) =>
            h.impedance.wristPos.pos = Some(h.smooth[1].position)

\* the square of the elbow-to-wrist distance of a pushed pose, by the law of
\* cosines about the shoulder: the elbow lies at elbowWorld.radius from the
\* shoulder, at the angle of cosine elbowWorld.cos from the wrist's direction
ElbowToWristSq(p) ==
  Let([toWrist \in {VFix(VSub(p.wristWorld, p.shoulderWorld))},
       r       \in {p.elbowWorld.radius} |->
  Let([dist \in {VLength(toWrist)} |->
  QSub(QAdd(Fix(QMul(r, r)), Fix(VLengthSq(toWrist))),
       QMul(I(2), Fix(QMul(Fix(QMul(r, dist)), Fix(p.elbowWorld.cos)))))])])

\* C25: in every tick and for every wrist target, farther than the maximum
\* reach and nearer than |L1 - L2| included, the pose pushed to RobotArm.update
\* has its elbow at G1.upperArmLength from the shoulder and its wrist at
\* G1.forearmLength from the elbow (to within 2 mm, the squares within 0.001).
C25_BoneLengthsFixed ==
  tracker.mode = "tracker" =>
    \A side \in Sides :
      LET h == tracker.hands[side]
      IN  h.pushed # Null =>
            /\ h.pushed[1].elbowWorld.radius = G1.upperArmLength
            /\ QLe(QAbs(QSub(ElbowToWristSq(h.pushed[1]),
                             Fix(QMul(G1.forearmLength, G1.forearmLength)))),
                   Q(1, 1000))

(***************************************************************************)
(* WeightedMovingFilter.js: the queue of the last frames, newest last      *)
(***************************************************************************)
RECURSIVE WeightedSumOldestFirst(_, _, _, _)
\* the sum with weights[0] on the oldest frame of the window
WeightedSumOldestFirst(queue, weights, j, i) ==
  IF i > Len(weights) THEN I(0)
  ELSE QAdd(QMul(queue[i][j], weights[i]),
            WeightedSumOldestFirst(queue, weights, j, i + 1))

RECURSIVE WeightedSumDoubled(_, _, _, _)
\* the sum with every weight doubled
WeightedSumDoubled(queue, weights, j, i) ==
  IF i > Len(weights) THEN I(0)
  ELSE QAdd(QMul(queue[Len(queue) + 1 - i][j], QMul(I(2), weights[i])),
            WeightedSumDoubled(queue, weights, j, i + 1))

RECURSIVE WeightedSum(_, _, _, _)
\* sum over i < windowSize of queue[length - 1 - i][j] * weights[i]
WeightedSum(queue, weights, j, i) ==
  IF i > Len(weights) THEN I(0)
  ELSE QAdd(QMul(queue[Len(queue) + 1 - i][j], weights[i]),
            WeightedSum(queue, weights, j, i + 1))

\* queue.push(newData): the caller's own array is stored
SameArray(newData) == [data |-> newData, shared |-> TRUE]

\* Float64Array.from(newData): a new array with the values of newData
Float64ArrayFrom(newData) == [data |-> newData, shared |-> FALSE]

\* addData(newData): the new queue and the returned filteredData
WeightedMovingFilterAddData(queue, weights, newData) ==
  Let([shifted \in {IF Len(queue) >= Len(weights) THEN Tail(queue) ELSE queue} |->
  Let([pushed \in {Append(shifted, newData)} |->
  Let([filtered \in {IF Len(pushed) < Len(weights) THEN pushed[Len(pushed)]
                  ELSE Values([j \in 1..Len(newData) |->
                                WeightedSum(pushed, weights, j, 1)])} |->
  [queue |-> pushed, filteredData |-> filtered]])])])

\* reset(): the queue emptied, filteredData filled with 0
WeightedMovingFilterReset(dataSize) ==
  [queue |-> <<>>, filteredData |-> Values([j \in 1..dataSize |-> I(0)])]

(***************************************************************************)
(* One WeightedMovingFilter under an arbitrary caller: construction,       *)
(* addData(sample), reset().                                               *)
(*   fed     the samples added since construction or the last reset()      *)
(*   out     what the last addData returned                                *)
(*   resets  how many times reset() was called                             *)
(*   caller  the array the caller passed to the last addData, as it is now *)
(*   shared  for each entry of the queue, is it the caller's array itself  *)
(***************************************************************************)
MaxAdds == 6

\* the weights of the arm's joint filters, and windows of two and of one
WeightSets ==
  {<<Q(4, 10), Q(3, 10), Q(2, 10), Q(1, 10)>>, <<Q(3, 5), Q(2, 5)>>, <<I(1)>>}

DataSize == 2

FrameSamples == {<<I(0), I(0)>>, <<I(1), I(-2)>>, <<I(3), I(1)>>}

InitWeighted ==
  \E w \in WeightSets :
    bench = [kind |-> "wmf", weights |-> w, dataSize |-> DataSize,
             queue |-> <<>>, filteredData |-> Values([j \in 1..DataSize |-> I(0)]),
             ops |-> 0, lastOp |-> "new", fed |-> <<>>, out |-> Null, resets |-> 0,
             caller |-> Null, shared |-> <<>>]

AddData ==
  /\ UNCHANGED NotBench
  /\ bench.kind = "wmf" /\ bench.ops < MaxAdds
  /\ \E s \in FrameSamples :
       LET added == WeightedMovingFilterAddData(bench.queue, bench.weights, s)
       IN  bench' = [bench EXCEPT !.queue = added.queue,
                                  !.filteredData = added.filteredData,
                                  !.ops = @ + 1, !.lastOp = "addData",
                                  !.fed = Append(@, s),
                                  !.out = Some(added.filteredData),
                                  !.caller = Some(s),
                                  !.shared =
                                    Append([k \in 1..(Len(added.queue) - 1) |-> FALSE],
                                           Float64ArrayFrom(s).shared)]

Reset ==
  /\ UNCHANGED NotBench
  /\ bench.kind = "wmf" /\ bench.ops < MaxAdds
  /\ LET r == WeightedMovingFilterReset(bench.dataSize)
     IN  bench' = [bench EXCEPT !.queue = r.queue, !.filteredData = r.filteredData,
                                !.ops = @ + 1, !.lastOp = "reset",
                                !.fed = <<>>, !.resets = @ + 1, !.shared = <<>>]

\* the caller writes other values into the array it passed to the last
\* addData: an entry of the queue changes if it is that array itself
CallerWrites ==
  /\ UNCHANGED NotBench
  /\ bench.kind = "wmf" /\ bench.ops < MaxAdds
  /\ bench.lastOp = "addData"
  /\ \E s \in FrameSamples :
       /\ Some(s) # bench.caller
       /\ bench' = [bench EXCEPT
                      !.caller = Some(s),
                      !.queue = Values([k \in 1..Len(@) |->
                                  IF bench.shared[k] THEN s ELSE @[k]]),
                      !.ops = @ + 1, !.lastOp = "write"]

NextWeighted == AddData \/ Reset \/ CallerWrites

InitWeightedFilter ==
  InitWeighted /\ IdleFingers /\ IdleArm /\ IdleHand /\ IdleTracker /\ IdleRobot

SpecWeighted == InitWeightedFilter /\ [][NextWeighted]_vars

\* weights[i] times component j of the i-th most recent sample (0 beyond the window)
WeightedTerm(i, j) ==
  IF i <= Len(bench.weights)
  THEN QMul(bench.weights[i], bench.fed[Len(bench.fed) + 1 - i][j])
  ELSE I(0)

\* C12: with N weights, each of the first N-1 addData calls after
\* construction or reset() returns the newest sample unchanged; from the N-th
\* call on, component j of the output is the sum over i < N of weights[i]
\* times component j of the i-th most recent sample, weights[0] on the newest.
C12_WindowedWeightedSum ==
  (bench.kind = "wmf" /\ bench.lastOp = "addData") =>
    IF Len(bench.fed) < Len(bench.weights)
    THEN bench.out[1] = bench.fed[Len(bench.fed)]
    ELSE \A j \in 1..bench.dataSize :
           bench.out[1][j] = QAdd(QAdd(QAdd(WeightedTerm(1, j), WeightedTerm(2, j)),
                                       WeightedTerm(3, j)), WeightedTerm(4, j))

\* the fourth addData after a reset(), with the four weights of the arm
\* filters, on samples that differ: 0.4 * (3, 1) + 0.1 * (1, -2)
C12_Witness ==
  /\ bench.kind = "wmf" /\ bench.lastOp = "addData" /\ bench.resets > 0
  /\ Len(bench.weights) = 4
  /\ bench.fed = <<(<<I(1), I(-2)>>), (<<I(0), I(0)>>), (<<I(0), I(0)>>), (<<I(3), I(1)>>)>>
  /\ bench.out = Some(<<Q(13, 10), Q(1, 5)>>)

\* the least and the greatest of component j over the window
WindowMin(j) ==
  CHOOSE x \in {bench.queue[k][j] : k \in 1..Len(bench.queue)} :
    \A y \in {bench.queue[k][j] : k \in 1..Len(bench.queue)} : QLe(x, y)

WindowMax(j) ==
  CHOOSE x \in {bench.queue[k][j] : k \in 1..Len(bench.queue)} :
    \A y \in {bench.queue[k][j] : k \in 1..Len(bench.queue)} : QLe(y, x)

C30_QueueHoldsRecentCopies ==
  bench.kind = "wmf" =>
    LET k == Len(bench.fed)
        n == IF k < Len(bench.weights) THEN k ELSE Len(bench.weights)
    IN  /\ Len(bench.queue) <= Len(bench.weights)
        /\ bench.queue = SubSeq(bench.fed, k - n + 1, k)

\* the caller has overwritten the array it passed to the last of more than
\* windowSize addData calls made since a reset
C30_Witness ==
  /\ bench.kind = "wmf" /\ bench.lastOp = "write" /\ bench.resets > 0
  /\ Len(bench.weights) = 2 /\ Len(bench.fed) = 3
  /\ bench.caller # Some(bench.fed[3])
  /\ bench.fed[1] # bench.fed[2] /\ bench.fed[2] # bench.fed[3]

(***************************************************************************)
(* CCDIK.js: solveCCDIK.  The world poses three.js reports while the       *)
(* solver runs are inputs: a scene gives the joints' world positions and   *)
(* world axes, and the end effector's world position and orientation; the  *)
(* call is given one scene per sweep, the last one standing for all later  *)
(* sweeps.  Angles are radians; each term of a correction is carried to    *)
(* four decimals.                                                          *)
(***************************************************************************)
\* G1_ARM_JOINTS axis, as world axes of unrotated parents
ArmAxes ==
  <<V(0, 0, 1), V(1, 0, 0), V(0, 1, 0), V(0, 0, 1), V(0, 1, 0), V(0, 0, 1), V(1, 0, 0)>>

\* the scene of a sweep: the arm bent at the elbow, stretched along x, or
\* with the end effector 1 mm from the target and turned as the target
Scene(kind, targetPos, targetQuat) ==
  Let([elbow \in {IF kind = "stretched" THEN P(250, 0, 0) ELSE P(150, -200, 0)} |->
  Let([wrist \in {VAdd(elbow, P(218, 0, 0))} |->
  [jointPos |-> <<P(0, 0, 0), P(0, 0, 0), P(0, 0, 0), elbow, wrist, wrist, wrist>>,
   axis     |-> ArmAxes,
   quatAxis |-> V(0, 1, 0),
   endPos   |-> IF kind = "reached" THEN VAdd(targetPos, P(1, 0, 0))
                ELSE VAdd(wrist, P(65, 0, 0)),
   endQuat  |-> IF kind = "reached" THEN targetQuat ELSE I(0)]])])

\* the shorter signed arc from the end effector's orientation to the target's
DeltaQuat(endQuat, targetQuat) ==
  Let([d \in {QuatArc(endQuat, targetQuat)} |->
  IF QLt(Q(1, 2), QAbs(d))
                THEN (IF QLt(I(0), d) THEN QSub(d, I(1)) ELSE QAdd(d, I(1)))
                ELSE d])

\* Math.sign
Sign(x) ==
  Let([v \in {x} |-> IF QLt(I(0), v) THEN I(1) ELSE IF QLt(v, I(0)) THEN I(-1) ELSE I(0)])

\* posErr and oriErr of a sweep
posErr(scene, targetPos) == distanceTo(scene.endPos, targetPos)

oriErr(scene, targetQuat) ==
  Let([d \in {DeltaQuat(scene.endQuat, targetQuat)} |->
  Fix(QMul(QMul(I(2), Pi), QAbs(d)))])

\* lenT of joint i: the length of _toTarget.subVectors(targetPos, _jointPos)
lenT(scene, i, targetPos) == distanceTo(targetPos, scene.jointPos[i])

\* totalAngle of joint i of n after damping
totalAngle(scene, i, n, targetPos, targetQuat) ==
  Let([t        \in {IF n > 1 THEN Q(i - 1, n - 1) ELSE I(0)},
       eps      \in {Q(1, 1000000)},
       lenE     \in {distanceTo(scene.endPos, scene.jointPos[i])},
       lenTi    \in {lenT(scene, i, targetPos)},
       toEnd    \in {Toward(scene.endPos, scene.jointPos[i])},
       toTarget \in {Toward(targetPos, scene.jointPos[i])},
       delta    \in {IF targetQuat = Null THEN I(0)
                     ELSE DeltaQuat(scene.endQuat, targetQuat[1])} |->
  Let([posW      \in {QSub(I(1), QMul(t, Q(8, 10)))},
       oriW      \in {QMul(t, Q(8, 10))},
       cross     \in {VFix(VCross(toEnd, toTarget))},
       cosA      \in {clamp(VDot(toEnd, toTarget), I(-1), I(1))},
       halfAngle \in {Fix(QMul(Pi, QAbs(delta)))},
       oproj     \in {QMul(Sign(delta), VDot(scene.quatAxis, scene.axis[i]))} |->
  Let([sinA  \in {VLength(cross)},
       proj  \in {Fix(VDot(VNormalize(cross), scene.axis[i]))},
       atan2 \in {Fix(QMul(Pi, AcosOverPi(cosA)))} |->
  Let([posTerm \in {IF /\ QLt(eps, lenE) /\ QLt(eps, lenTi)
                       /\ QLt(eps, sinA) /\ QLt(Q(1, 100), QAbs(proj))
                    THEN Fix(QMul(QMul(atan2, Sign(proj)), posW))
                    ELSE I(0)},
       oriTerm \in {IF /\ QLt(Q(1, 100), oriW) /\ targetQuat # Null
                       /\ QLt(Q(5, 1000), halfAngle) /\ QLt(Q(1, 100), QAbs(oproj))
                    THEN Fix(QMul(QMul(QMul(halfAngle, I(2)), Sign(oproj)), oriW))
                    ELSE I(0)} |->
  Fix(QMul(QAdd(posTerm, oriTerm), Q(1, 2)))])])])])

\* the scene of sweep iter (counted from 0)
SceneOf(scenes, iter) == IF iter + 1 <= Len(scenes) THEN iter + 1 ELSE Len(scenes)

\* a loop without the convergence test: every sweep is made
SweepsAll(errs, iterations) == iterations

\* the sweeps the call makes: the first one that finds posErr < 0.003 &&
\* oriErr < 0.03 returns, else all of them are made
Sweeps(errs, iterations) ==
  Let([returns \in {{iter \in 0..(iterations - 1) :
                      LET e == errs[SceneOf(errs, iter)]
                      IN  QLt(e.posErr, Q(3, 1000)) /\ QLt(e.oriErr, Q(3, 100))}} |->
  IF returns = {} THEN iterations
  ELSE CHOOSE iter \in returns : \A other \in returns : iter <= other])

\* the visit of one joint in a sweep: skipped below 0.0001, else the new angle
\* clamped to the limit (or to -PI, PI) and handed to setJointValue
Visit(joint, total, ignoreLimits) ==
  IF QLt(QAbs(total), Q(1, 10000)) THEN joint
  ELSE
  Let([newAngle \in {QAdd(joint.angle, total)} |->
  Let([lo \in {IF joint.limit = Null THEN QNeg(Pi) ELSE joint.limit[1].lower},
       hi \in {IF joint.limit = Null THEN Pi ELSE joint.limit[1].upper} |->
  setJointValue(joint, QMax(lo, QMin(hi, newAngle)), ignoreLimits)])])

\* m visits with the same total.  A total below 0.0001 is skipped every
\* time.  Otherwise the first visit leaves the angle between lo and hi; each
\* later one adds total and clamps again, and as total keeps its sign only
\* one bound can act, so the m - 1 later visits are one clamp of the sum.
VisitTimes(joint, total, m, ignoreLimits) ==
  IF m = 0 \/ QLt(QAbs(total), Q(1, 10000)) THEN joint
  ELSE
  Let([first \in {Visit(joint, total, ignoreLimits)} |->
  IF m = 1 THEN first
  ELSE
  Let([ahead \in {[first EXCEPT !.angle = QAdd(@, QMul(I(m - 2), total))]} |->
  Visit(ahead, total, ignoreLimits)])])

RECURSIVE Visits(_, _, _, _, _, _)
\* joint i through the sweeps iter .. sweeps - 1: one visit per sweep that has
\* a scene of its own, then the remaining sweeps in the last scene.  The
\* readings of a sweep do not depend on the angles written in it, so each
\* joint is followed on its own.
Visits(joint, i, totals, iter, sweeps, ignoreLimits) ==
  IF iter >= sweeps THEN joint
  ELSE IF iter + 1 >= Len(totals)
  THEN VisitTimes(joint, totals[Len(totals)][i], sweeps - iter, ignoreLimits)
  ELSE
  Let([visited \in {Visit(joint, totals[iter + 1][i], ignoreLimits)} |->
  Visits(visited, i, totals, iter + 1, sweeps, ignoreLimits)])

\* the joints after the call, and the number of sweeps it made
solveCCDIK(joints, scenes, targetPos, targetQuat, iterations, ignoreLimits) ==
  Let([n      \in {Len(joints)},
       errs   \in {Values([k \in 1..Len(scenes) |->
                     [posErr |-> posErr(scenes[k], targetPos),
                      oriErr |-> oriErr(scenes[k], targetQuat[1])]])},
       totals \in {Values([k \in 1..Len(scenes) |->
                     Values([i \in 1..Len(joints) |->
                       totalAngle(scenes[k], i, Len(joints), targetPos, targetQuat)])])} |->
  Let([sweeps \in {Sweeps(errs, iterations)} |->
  [joints |-> Values([i \in 1..n |->
                Visits(joints[i], i, totals, 0, sweeps, ignoreLimits)]),
   sweeps |-> sweeps]])])

(***************************************************************************)
(* URDFRobot (the controller with COLLISION_OVERRIDES): the robot as       *)
(* loaded and set up, and its frame handler.  The view calibration changes *)
(* only the camera rig and is kept as the flag calibrated.  Finger angles  *)
(* are in degrees, arm angles in radians.  Beside the objects of the       *)
(* component each side keeps what the frame's solveCCDIK call did          *)
(* (solved) and what the session reported for the hand in the frame        *)
(* (input; "noxr" for a frame without an XR frame).                        *)
(***************************************************************************)
MaxFrames == 3

ArmJointNames ==
  <<"shoulder_pitch", "shoulder_roll", "shoulder_yaw", "elbow",
    "wrist_roll", "wrist_pitch", "wrist_yaw">>

\* the arm joint limits in radians, to three decimals; joint.angle is 0 at load
ArmLimit(lo, hi) == Some([lower |-> Q(lo, 1000), upper |-> Q(hi, 1000)])

G1ArmJoints(side) ==
  LET roll == IF side = "left" THEN ArmLimit(-1588, 2251) ELSE ArmLimit(-2251, 1588)
      lim  == <<ArmLimit(-2688, 2688), roll, ArmLimit(-2618, 2618), ArmLimit(0, 2880),
                ArmLimit(-3142, 3142), ArmLimit(-1614, 1614), ArmLimit(-1614, 1614)>>
  IN  Values([i \in 1..7 |-> [limit |-> lim[i], angle |-> I(0)]])

\* COLLISION_OVERRIDES of a side, by joint name
COLLISION_OVERRIDES(side) ==
  [n \in {"shoulder_roll", "shoulder_pitch", "shoulder_yaw", "elbow"} |->
    CASE n = "shoulder_roll" ->
           IF side = "left" THEN [lower |-> Some(Q(-2, 10)), upper |-> Null]
           ELSE [lower |-> Null, upper |-> Some(Q(2, 10))]
      [] n = "shoulder_pitch" -> [lower |-> Some(I(-2)), upper |-> Some(I(2))]
      [] n = "shoulder_yaw" -> [lower |-> Some(Q(-15, 10)), upper |-> Some(Q(15, 10))]
      [] OTHER -> [lower |-> Some(Q(1, 10)), upper |-> Null]]

\* the loop writing the table's bounds as they are
applyOverridesReplacing(side, joints) ==
  Values([i \in 1..Len(joints) |->
    LET j == joints[i]
        n == ArmJointNames[i]
    IN  IF n \notin DOMAIN COLLISION_OVERRIDES(side) \/ j.limit = Null THEN j
        ELSE LET ov == COLLISION_OVERRIDES(side)[n]
             IN  [j EXCEPT !.limit = Some(
                   [lower |-> IF ov.lower # Null THEN ov.lower[1] ELSE j.limit[1].lower,
                    upper |-> IF ov.upper # Null THEN ov.upper[1] ELSE j.limit[1].upper])]])

\* the setup effect's loop over COLLISION_OVERRIDES: limits tightened, angles kept
applyOverrides(side, joints) ==
  Values([i \in 1..Len(joints) |->
    LET j == joints[i]
        n == ArmJointNames[i]
    IN  IF n \notin DOMAIN COLLISION_OVERRIDES(side) \/ j.limit = Null THEN j
        ELSE LET ov == COLLISION_OVERRIDES(side)[n]
             IN  [j EXCEPT !.limit = Some(
                   [lower |-> IF ov.lower # Null THEN QMax(j.limit[1].lower, ov.lower[1])
                              ELSE j.limit[1].lower,
                    upper |-> IF ov.upper # Null THEN QMin(j.limit[1].upper, ov.upper[1])
                              ELSE j.limit[1].upper])]])

NotRobot == <<bench, fingers, arm, hand, tracker>>

(***************************************************************************)
(* The setup effect on a loaded robot.  The effect runs again whenever the *)
(* robot, the physics world or the physics engine it depends on changes,   *)
(* each time on the robot object it is given.                              *)
(*   raw      the joints as the loader made them                           *)
(*   sides    the joints of the robot object                               *)
(*   setups   the number of runs of the effect                             *)
(***************************************************************************)
MaxSetups == 3

\* the limits a description may give joint i: those of the G1, a narrow
\* range, a wide one, none
RawLimits(side, i) ==
  <<G1ArmJoints(side)[i].limit, ArmLimit(-100, 150), ArmLimit(-3000, 3000), Null>>

InitSetup ==
  \E l1 \in 1..4, l2 \in 1..4, l3 \in 1..4, l4 \in 1..4, l5 \in 1..4 :
    LET pick == <<l1, l2, l3, l4, l5, 1, 1>>
        Loaded(side) ==
          Values([i \in 1..7 |->
            [limit |-> RawLimits(side, i)[pick[i]], angle |-> I(0)]])
    IN  robot = [mode |-> "setup", setups |-> 0,
                 raw   |-> [side \in Sides |-> Loaded(side)],
                 sides |-> [side \in Sides |-> Loaded(side)]]

\* the effect's loop over COLLISION_OVERRIDES
SetupEffect ==
  /\ UNCHANGED NotRobot
  /\ robot.mode = "setup" /\ robot.setups < MaxSetups
  /\ robot' = [robot EXCEPT
       !.setups = @ + 1,
       !.sides = [side \in Sides |-> applyOverrides(side, robot.sides[side])]]

NextSetup == SetupEffect

InitRobotSetup ==
  InitSetup /\ IdleBench /\ IdleFingers /\ IdleArm /\ IdleHand /\ IdleTracker

SpecSetup == InitRobotSetup /\ [][NextSetup]_vars

\* the limit of a joint named in the table: each bound the tighter of the
\* loaded one and the table's, a bound the table leaves out as loaded
TightenedLimit(raw, ov) ==
  [lower |-> IF ov.lower = Null THEN raw.lower ELSE QMax(raw.lower, ov.lower[1]),
   upper |-> IF ov.upper = Null THEN raw.upper ELSE QMin(raw.upper, ov.upper[1])]

\* C16: static joint-limit tightening never widens a range: after the setup
\* effect has run any number of times (once or more), every joint named in
\* COLLISION_OVERRIDES has the limit [max(raw lower, override lower),
\* min(raw upper, override upper)], a bound without an override its raw
\* value, and every joint not named in the table, or without a limit, has
\* its raw limits.
C16_TighteningNeverWidens ==
  (robot.mode = "setup" /\ robot.setups > 0) =>
    \A side \in Sides : \A i \in 1..7 :
      LET raw == robot.raw[side][i].limit
          now == robot.sides[side][i].limit
          n   == ArmJointNames[i]
      IN  IF n \in DOMAIN COLLISION_OVERRIDES(side) /\ raw # Null
          THEN /\ now = Some(TightenedLimit(raw[1], COLLISION_OVERRIDES(side)[n]))
               /\ QLe(raw[1].lower, now[1].lower) /\ QLe(now[1].upper, raw[1].upper)
          ELSE now = raw

\* the effect has run three times on a robot whose left shoulder pitch was
\* loaded with a range narrower than the table's, its shoulder roll with the
\* G1's, its elbow with a wide one and its shoulder yaw with none
C16_Witness ==
  /\ robot.mode = "setup" /\ robot.setups = 3
  /\ robot.raw["left"][1].limit = ArmLimit(-100, 150)
  /\ robot.sides["left"][1].limit = ArmLimit(-100, 150)
  /\ robot.raw["left"][2].limit = ArmLimit(-1588, 2251)
  /\ robot.sides["left"][2].limit = ArmLimit(-200, 2251)
  /\ robot.sides["right"][2].limit = ArmLimit(-2251, 200)
  /\ robot.raw["left"][3].limit = Null /\ robot.sides["left"][3].limit = Null
  /\ robot.raw["left"][4].limit = ArmLimit(-3000, 3000)
  /\ robot.sides["left"][4].limit = ArmLimit(100, 3000)

\* XR_TO_URDF_L, XR_TO_URDF_R: a quarter turn about y; the right hand's further
\* half turn about z is outside the one-axis orientations and is left out
XR_TO_URDF(side) == Q(1, 4)

\* what a hand source reports in a frame, and the scenes the solver finds
RobotSamples ==
  [Near |-> [joints |-> Placed(OpenHand, P(400, -200, 100)), quaternion |-> I(0),
             scenes |-> <<"bent", "reached">>],
   Far  |-> [joints |-> Placed(Fist, P(900, 0, 0)), quaternion |-> Q(1, 4),
             scenes |-> <<"stretched", "bent">>],
   Held |-> [joints |-> Placed(Pinch, P(400, -200, 100)), quaternion |-> Q(1, 2),
             scenes |-> <<"reached">>]]

RobotInputs(side) ==
  IF side = "left" THEN {"none", "nowrist"} \cup DOMAIN RobotSamples
  ELSE {"none", "Near"}

InitRobot ==
  \E ign \in BOOLEAN :
    robot = [mode |-> "robot", ignoreLimits |-> ign, frames |-> 0,
             calibrated |-> FALSE,
             sides |-> [side \in Sides |->
                [chain |-> applyOverrides(side, G1ArmJoints(side)),
                 hand  |-> IF side = "left" THEN Dex31Joints ELSE Dex31Mirrored,
                 smooth |-> [pos |-> Null, quat |-> Null],
                 jointFilter |-> <<>>,
                 retarget |-> Null,
                 trackingFrames |-> 0,
                 solved |-> Null,
                 input |-> "start"]]]

\* solveAndFilter: the chain after the call, the filter's queue, and what the
\* solver did (its sweeps, the angles before and after it, the goal's distance
\* from the chain root, lenT at the root joint, the chain's length)
solveAndFilter(chain, scenes, targetPos, targetQuat, queue, ignoreLimits) ==
  Let([n     \in {Len(chain)},
       ik    \in {solveCCDIK(chain, scenes, targetPos, targetQuat, 20, ignoreLimits)},
       upper \in {distanceTo(scenes[1].jointPos[4], scenes[1].jointPos[1])},
       fore  \in {distanceTo(scenes[1].jointPos[5], scenes[1].jointPos[4])},
       goal  \in {distanceTo(targetPos, scenes[1].jointPos[1])},
       root  \in {lenT(scenes[1], 1, targetPos)} |->
  Let([solved \in {Values([i \in 1..n |-> ik.joints[i].angle])} |->
  Let([added \in {WeightedMovingFilterAddData(
                    queue, <<Q(4, 10), Q(3, 10), Q(2, 10), Q(1, 10)>>, solved)} |->
  [chain  |-> Values([i \in 1..n |->
                IF i <= Len(added.filteredData)
                THEN setJointValue(ik.joints[i], added.filteredData[i], ignoreLimits)
                ELSE ik.joints[i]]),
   queue  |-> added.queue,
   solved |-> [sweeps   |-> ik.sweeps,
               before   |-> Values([i \in 1..n |-> chain[i].angle]),
               after    |-> solved,
               goalDist |-> goal,
               rootLenT |-> root,
               reach    |-> QAdd(QAdd(upper, fore), Q(65, 1000))]]])])])

\* the wrist check placed after the frame count
SkipHandCounted(h, input) ==
  [h EXCEPT !.solved = Null, !.input = input, !.trackingFrames = @ + 1]

\* a hand the loop passes over: no source for the side, or a source whose
\* wrist joint has no pose
SkipHand(h, input) == [h EXCEPT !.solved = Null, !.input = input]

\* the loop body of the frame handler for one side
RobotHand(side, input) ==
  Let([h \in {robot.sides[side]} |->
  IF input \in {"none", "nowrist"} THEN SkipHand(h, input)
  ELSE
  Let([sample \in {RobotSamples[input]} |->
  Let([wrist     \in {sample.joints[1]["wrist"][1]},
       corrected \in {QuatNorm(QAdd(sample.quaternion, XR_TO_URDF(side)))},
       raw       \in {retargetHand(sample.joints)} |->
  Let([pos  \in {ExponentialSmootherUpdate(h.smooth.pos, Q(3, 10), wrist)},
       quat \in {QuaternionSmootherUpdate(h.smooth.quat, Q(3, 10), corrected)},
       rt   \in {RetargetingFilterUpdate(h.retarget, Q(4, 10), raw)} |->
  Let([sf \in {solveAndFilter(h.chain,
                              Values([k \in 1..Len(sample.scenes) |->
                                Scene(sample.scenes[k], pos[1], quat[1])]),
                              pos[1], quat, h.jointFilter, robot.ignoreLimits)},
       fingered \in {applyFingerAngles(h.hand, side, rt, FALSE, robot.ignoreLimits)} |->
  [chain |-> sf.chain,
   hand |-> fingered,
   smooth |-> [pos |-> pos, quat |-> quat],
   jointFilter |-> sf.queue,
   retarget |-> rt,
   trackingFrames |-> h.trackingFrames + 1,
   solved |-> Some(sf.solved),
   input |-> input]])])])])])

\* useFrame with an XR frame and session
RobotFrame ==
  /\ UNCHANGED NotRobot
  /\ robot.mode = "robot" /\ robot.frames < MaxFrames
  /\ \E l \in RobotInputs("left"), r \in RobotInputs("right") :
       robot' = [robot EXCEPT
         !.frames = @ + 1,
         !.calibrated = TRUE,
         !.sides = [side \in Sides |->
                      RobotHand(side, IF side = "left" THEN l ELSE r)]]

\* useFrame without an XR frame or session: it returns before the loop
RobotFrameNoXR ==
  /\ UNCHANGED NotRobot
  /\ robot.mode = "robot" /\ robot.frames < MaxFrames
  /\ robot' = [robot EXCEPT
       !.frames = @ + 1,
       !.sides = [side \in Sides |-> SkipHand(robot.sides[side], "noxr")]]

NextRobot == RobotFrame \/ RobotFrameNoXR

InitURDFRobot ==
  InitRobot /\ IdleBench /\ IdleFingers /\ IdleArm /\ IdleHand /\ IdleTracker

SpecRobot == InitURDFRobot /\ [][NextRobot]_vars

\* the angle of a joint lies in its limit
WithinLimit(joint) ==
  joint.limit # Null =>
    QLe(joint.limit[1].lower, joint.angle) /\ QLe(joint.angle, joint.limit[1].upper)

\* C1: for every control tick and every joint of a hand's arm chain, the
\* angle left on the joint at the end of the tick (after solveCCDIK and after
\* solveAndFilter has written the WeightedMovingFilter output back with
\* setJointValue) lies in that joint's [limit.lower, limit.upper], from any
\* initial joint angles and whether or not the solver changed the joint in
\* that tick.
C1_ArmAnglesWithinLimits ==
  (robot.mode = "robot" /\ robot.frames > 0) =>
    \A side \in Sides :
      \A i \in 1..Len(robot.sides[side].chain) : WithinLimit(robot.sides[side].chain[i])

\* C9: when the goal's distance from the chain root exceeds the sum of the
\* chain's link lengths, the CCD solver clamps the effective target distance
\* to (sum of link lengths) x 0.999 before it computes any joint correction:
\* the target the root joint's correction is measured against is no farther
\* from the root than that.
C9_TargetClampedToReach ==
  robot.mode = "robot" =>
    \A side \in Sides :
      LET s == robot.sides[side].solved
      IN  (s # Null /\ s[1].sweeps > 0 /\ QLt(s[1].reach, s[1].goalDist))
            => QLe(s[1].rootLenT, QMul(s[1].reach, Q(999, 1000)))
\* what the component keeps of a hand from frame to frame
Persistent(h) ==
  <<h.smooth, h.retarget, h.jointFilter, h.trackingFrames, h.chain, h.hand>>

\* C14: in a frame where a hand's input source is present but its wrist
\* joint has no pose, the frame handler passes over the hand: its pose
\* smoothers, its HandShape filter, its joint-angle filter, its frame
\* counter, its arm joints and its finger joints are after the frame what
\* they were before it.
C14_NoWristSkipsHand ==
  [][\A side \in Sides :
       (robot.mode = "robot" /\ robot'.sides[side].input = "nowrist")
         => Persistent(robot'.sides[side]) = Persistent(robot.sides[side])]_vars

\* the left hand, tracked in an earlier frame, reports no wrist pose while
\* the right hand is tracked
C14_Witness ==
  /\ robot.mode = "robot"
  /\ robot.sides["left"].input = "nowrist"
  /\ robot.sides["left"].trackingFrames > 0
  /\ robot.sides["left"].smooth.pos # Null
  /\ robot.sides["left"].retarget # Null
  /\ robot.sides["right"].input = "Near"

\* the errors the solver reads at the start of sweep iter of the call the
\* frame made for the hand: the smoothed wrist pose is the target
Converged(h, iter) ==
  LET scenes == RobotSamples[h.input].scenes
      scene  == Scene(scenes[SceneOf(scenes, iter)], h.smooth.pos[1], h.smooth.quat[1])
  IN  /\ QLt(posErr(scene, h.smooth.pos[1]), Q(3, 1000))
      /\ QLt(oriErr(scene, h.smooth.quat[1]), Q(3, 100))

\* C21: solveCCDIK returns at the start of the first outer iteration that
\* finds the position error below 0.003 and the orientation error below
\* 0.03: it makes no sweep from that iteration on, and makes every sweep
\* before it.  When both hold on entry, no sweep is made and every joint
\* angle is after the call what it was before it.
C21_EarlyTermination ==
  robot.mode = "robot" =>
    \A side \in Sides :
      LET h == robot.sides[side]
      IN  h.solved # Null =>
            /\ \A iter \in 0..19 :
                 (Converged(h, iter) /\ \A j \in 0..(iter - 1) : ~Converged(h, j))
                   => h.solved[1].sweeps = iter
            /\ (\A iter \in 0..19 : ~Converged(h, iter)) => h.solved[1].sweeps = 20
            /\ Converged(h, 0) => h.solved[1].after = h.solved[1].before

\* the left arm, moved by an earlier frame, is called with the end effector
\* already at the target
C21_Witness ==
  /\ robot.mode = "robot"
  /\ robot.sides["left"].solved # Null
  /\ Converged(robot.sides["left"], 0)
  /\ robot.sides["left"].solved[1].sweeps = 0
  /\ \E i \in 1..7 : robot.sides["left"].solved[1].before[i] # I(0)

(***************************************************************************)
(* PhysicsManager.js, and URDFRobot with the physics world: the hooks      *)
(* around a physics step and the frame handler's use of their result.      *)
(* Link and collider names are held split at the underscores.  A rendered  *)
(* frame runs the Physics component's frame callback, which adds the       *)
(* frame's delta to its accumulator and makes one fixed step (before-step  *)
(* callbacks, world.step, after-step callbacks) for each whole time step   *)
(* in it, and then the frame handler of URDFRobot.  Times are in 1/360 s.  *)
(* The solver's result is drawn from IkSolutions.                          *)
(*   pm          the PhysicsManager                                        *)
(*   touching    the collider pairs whose shapes touch, as of world.step   *)
(*   collision   collision.current                                         *)
(*   acc, phase  the accumulator, and where the rendered frame stands      *)
(*   pose, synced   the count of frames that wrote joint angles, and that  *)
(*               count when syncToPhysics last copied the link poses       *)
(*   result      the last checkCollisions result and the tick of its step  *)
(*   read        collision.current as the frame handler last found it      *)
(*   sides       per side: chain, jointFilter queue, trackingFrames,       *)
(*               safeAngles, the frames in a row that found the side's     *)
(*               flag set (contactFrames), and what the last frame did     *)
(*               (commit)                                                  *)
(***************************************************************************)
MaxPhysicsTicks == 3

ARM_PREFIXES ==
  {<<side>> \o joint : side \in Sides,
                       joint \in {<<"shoulder", "pitch">>, <<"shoulder", "roll">>,
                                  <<"shoulder", "yaw">>, <<"elbow">>, <<"wrist", "roll">>,
                                  <<"wrist", "pitch">>, <<"wrist", "yaw">>, <<"hand">>}}

SKIP_LINKS ==
  {<<"imu", "in", "torso">>, <<"imu", "in", "pelvis">>, <<"d435", "link">>,
   <<"mid360", "link">>, <<"logo", "link">>, <<"waist", "support", "link">>}

ARM_GROUP == {0}

BODY_GROUP == {1}

\* the groups of a collider made without setCollisionGroups: all sixteen
DefaultGroups == [membership |-> 0..15, filter |-> 0..15]

COLLISION_GRACE_FRAMES == 30

startsWith(name, prefix) ==
  Len(prefix) <= Len(name) /\ SubSeq(name, 1, Len(prefix)) = prefix

isArmLink(name) == \E p \in ARM_PREFIXES : startsWith(name, p)

\* robot.links, by name
RobotLinks ==
  {<<"pelvis">>, <<"torso", "link">>, <<"logo", "link">>,
   <<"left", "hip", "pitch", "link">>,
   <<"left", "elbow", "link">>, <<"left", "hand", "palm", "link">>,
   <<"right", "elbow", "link">>, <<"right", "wrist", "yaw", "link">>}

\* the colliders of the scene: the floor, the table of the test objects
EnvironmentColliders == {<<"floor">>, <<"table">>}

\* constructor and init(robot): a body and a collider for every link that is
\* not skipped and has geometry; the collider's handle is held as its link's name
PhysicsManagerInit(meshed) ==
  LET created == {n \in RobotLinks \ SKIP_LINKS : n \in meshed}
  IN  [entries |-> [n \in created |-> [arm |-> isArmLink(n)]],
       groups  |-> [n \in created |->
                     IF isArmLink(n)
                     THEN [membership |-> ARM_GROUP, filter |-> BODY_GROUP \cup ARM_GROUP]
                     ELSE [membership |-> BODY_GROUP, filter |-> ARM_GROUP]],
       colliderHandleToLink |-> [n \in created |-> n],
       armColliders |-> {n \in created : isArmLink(n)},
       collidingSides |-> [left |-> FALSE, right |-> FALSE]]

CollisionGroups(pm, collider) ==
  IF collider \in DOMAIN pm.groups THEN pm.groups[collider] ELSE DefaultGroups

\* the world pairs two colliders when each one's membership meets the other's filter
Interacts(a, b) == a.membership \cap b.filter # {} /\ b.membership \cap a.filter # {}

\* world.contactPairsWith(collider, callback): the colliders the callback gets
contactPairsWith(pm, touching, collider) ==
  {other \in DOMAIN pm.entries \cup EnvironmentColliders :
     /\ {collider, other} \in touching
     /\ Interacts(CollisionGroups(pm, collider), CollisionGroups(pm, other))}

\* the flags kept from the call before unless a contact sets them anew
checkCollisionsKeeping(pm, touching) ==
  [side \in Sides |->
    \/ pm.collidingSides[side]
    \/ \E name \in pm.armColliders :
         /\ name[1] = side
         /\ \E other \in contactPairsWith(pm, touching, name) :
              /\ other \in DOMAIN pm.colliderHandleToLink
              /\ ~pm.entries[pm.colliderHandleToLink[other]].arm]

\* checkCollisions(): collidingSides after the call
checkCollisions(pm, touching) ==
  [side \in Sides |->
    \E name \in pm.armColliders :
      /\ name[1] = side
      /\ \E other \in contactPairsWith(pm, touching, name) :
           /\ other \in DOMAIN pm.colliderHandleToLink
           /\ ~pm.entries[pm.colliderHandleToLink[other]].arm]

\* the right flag left as it was
afterPhysicsStepLeftOnly(collision, c) == [left |-> c.left, right |-> collision.right]

\* the after-step callback's two assignments to collision.current
afterPhysicsStep(collision, c) == [left |-> c.left, right |-> c.right]

\* blendToSafe: every joint set half way to its saved angle
blendToSafe(chain, safe) ==
  Values([i \in 1..Len(chain) |->
    IF i > Len(safe) THEN chain[i]
    ELSE setJointValue(chain[i],
                       QAdd(chain[i].angle, QMul(QSub(safe[i], chain[i].angle), Q(1, 2))),
                       FALSE)])

\* saveAngles: the buffer after the call
saveAngles(chain, buf) ==
  Values([i \in 1..Len(buf) |-> IF i <= Len(chain) THEN chain[i].angle ELSE buf[i]])

\* the fixed time step of the Physics component, 1/60 s
PhysicsTimeStep == 6

\* a rendered frame's delta: 120, 72 and 30 frames a second
FrameDeltas == {3, 5, 12}

\* the shapes world.step may find touching
Touchings ==
  {{},
   {{<<"left", "elbow", "link">>, <<"torso", "link">>}},
   {{<<"left", "hand", "palm", "link">>, <<"table">>}},
   {{<<"left", "hand", "palm", "link">>, <<"right", "wrist", "yaw", "link">>}},
   {{<<"right", "elbow", "link">>, <<"left", "hip", "pitch", "link">>},
    {<<"pelvis">>, <<"torso", "link">>}}}

\* the links the loader found geometry for
Meshed == {RobotLinks, RobotLinks \ {<<"left", "hip", "pitch", "link">>}}

\* arm angles the solver may leave on a chain
IkSolutions(side) ==
  IF side = "left"
  THEN {<<I(0), I(0), I(0), Q(1, 10), I(0), I(0), I(0)>>,
        <<Q(1, 2), I(0), Q(-1, 2), I(1), I(0), Q(1, 5), I(0)>>}
  ELSE {<<I(0), I(0), I(0), Q(1, 10), I(0), I(0), I(0)>>}

\* a side before its first tracked frame
FreshSide(side) ==
  [chain |-> applyOverrides(side, G1ArmJoints(side)),
   jointFilter |-> <<>>,
   trackingFrames |-> 0,
   safeAngles |-> Values([i \in 1..7 |-> I(0)]),
   contactFrames |-> 0,
   commit |-> Null]

\* a side tracked for n frames with the arm at rest, its flag set in the last k
RestingSide(side, n, k) ==
  LET rest == <<I(0), I(0), I(0), Q(1, 10), I(0), I(0), I(0)>>
  IN  [chain |-> Values([i \in 1..7 |->
                   [applyOverrides(side, G1ArmJoints(side))[i] EXCEPT !.angle = rest[i]]]),
       jointFilter |-> <<rest, rest, rest, rest>>,
       trackingFrames |-> n,
       safeAngles |-> Values([i \in 1..7 |-> I(0)]),
       contactFrames |-> k,
       commit |-> Null]

InitPhysics ==
  \E meshed \in Meshed, acc \in 0..(PhysicsTimeStep - 1), engaged \in BOOLEAN :
    LET pm == PhysicsManagerInit(meshed)
        elbowOnTorso == {{<<"left", "elbow", "link">>, <<"torso", "link">>}}
    IN  robot =
          IF engaged
          THEN [mode |-> "physics",
                pm |-> [pm EXCEPT !.collidingSides = checkCollisions(pm, elbowOnTorso)],
                touching |-> elbowOnTorso,
                collision |-> checkCollisions(pm, elbowOnTorso),
                acc |-> acc, phase |-> "render", tick |-> 0,
                pose |-> 0, synced |-> 0,
                result |-> Some([pair |-> checkCollisions(pm, elbowOnTorso), tick |-> 0]),
                read |-> Null,
                sides |-> [side \in Sides |->
                            RestingSide(side, COLLISION_GRACE_FRAMES - 1,
                                        IF side = "left" THEN COLLISION_GRACE_FRAMES - 1
                                        ELSE 0)]]
          ELSE [mode |-> "physics",
                pm |-> pm,
                touching |-> {},
                collision |-> [left |-> FALSE, right |-> FALSE],
                acc |-> acc, phase |-> "render", tick |-> 0,
                pose |-> 0, synced |-> 0,
                result |-> Null,
                read |-> Null,
                sides |-> [side \in Sides |-> FreshSide(side)]]

\* the Physics component's frame callback: the delta joins the accumulator
PhysicsFrame ==
  /\ UNCHANGED NotRobot
  /\ robot.mode = "physics" /\ robot.phase = "render" /\ robot.tick < MaxPhysicsTicks
  /\ \E delta \in FrameDeltas :
       robot' = [robot EXCEPT
         !.tick = @ + 1,
         !.acc = @ + delta,
         !.phase = IF robot.acc + delta >= PhysicsTimeStep THEN "before" ELSE "frame"]

\* useBeforePhysicsStep: syncToPhysics copies every link's world pose to its body
BeforePhysicsStep ==
  /\ UNCHANGED NotRobot
  /\ robot.mode = "physics" /\ robot.phase = "before"
  /\ robot' = [robot EXCEPT !.synced = robot.pose, !.phase = "step"]

\* world.step()
WorldStep ==
  /\ UNCHANGED NotRobot
  /\ robot.mode = "physics" /\ robot.phase = "step"
  /\ \E touching \in Touchings :
       robot' = [robot EXCEPT
         !.touching = touching,
         !.acc = @ - PhysicsTimeStep,
         !.phase = "after"]

\* useAfterPhysicsStep: checkCollisions, and its flags copied to collision.current
AfterPhysicsStep ==
  /\ UNCHANGED NotRobot
  /\ robot.mode = "physics" /\ robot.phase = "after"
  /\ LET c == checkCollisions(robot.pm, robot.touching)
     IN  robot' = [robot EXCEPT
           !.pm.collidingSides = c,
           !.collision = afterPhysicsStep(robot.collision, c),
           !.result = Some([pair |-> c, tick |-> robot.tick]),
           !.phase = IF robot.acc >= PhysicsTimeStep THEN "before" ELSE "frame"]

\* solveAndFilter with the solver's result given: the chain, the filter's queue
solvedAndFiltered(chain, solution, queue) ==
  LET solved == Values([i \in 1..Len(chain) |-> setJointValue(chain[i], solution[i], FALSE)])
      added  == WeightedMovingFilterAddData(
                  queue, <<Q(4, 10), Q(3, 10), Q(2, 10), Q(1, 10)>>,
                  Values([i \in 1..Len(chain) |-> solved[i].angle]))
  IN  [chain |-> Values([i \in 1..Len(chain) |->
                   IF i <= Len(added.filteredData)
                   THEN setJointValue(solved[i], added.filteredData[i], FALSE)
                   ELSE solved[i]]),
       queue |-> added.queue]

\* the loop body of the frame handler, arm part, for a side with a wrist pose
ArmFrame(side, h, collision, solution) ==
  LET frames    == h.trackingFrames + 1
      colliding == collision[side] /\ frames > COLLISION_GRACE_FRAMES
      sf        == solvedAndFiltered(h.chain, solution, h.jointFilter)
  IN  [h EXCEPT !.chain = sf.chain,
                !.jointFilter = sf.queue,
                !.trackingFrames = frames,
                !.commit = Some([colliding |-> colliding, solved |-> sf.chain])]

\* the frames in a row, this one included, that found the side's flag set
ContactFrames(h, flag) ==
  IF flag THEN (IF h.contactFrames > COLLISION_GRACE_FRAMES THEN h.contactFrames
                ELSE h.contactFrames + 1)
  ELSE 0

\* useFrame of URDFRobot: each side with or without a wrist pose
RobotUseFrame ==
  /\ UNCHANGED NotRobot
  /\ robot.mode = "physics" /\ robot.phase = "frame"
  /\ \E tracked \in [Sides -> BOOLEAN] :
     \E solution \in [Sides -> IkSolutions("left")] :
       /\ \A side \in Sides : solution[side] \in IkSolutions(side)
       /\ \A side \in Sides : ~tracked[side] =>
            solution[side] = <<I(0), I(0), I(0), Q(1, 10), I(0), I(0), I(0)>>
       /\ robot' = [robot EXCEPT
            !.phase = "render",
            !.pose = IF \E side \in Sides : tracked[side] THEN @ + 1 ELSE @,
            !.read = IF \E side \in Sides : tracked[side]
                     THEN Some([pair |-> robot.collision, tick |-> robot.tick,
                                sides |-> {side \in Sides : tracked[side]}])
                     ELSE Null,
            !.sides = [side \in Sides |->
                        LET h == [robot.sides[side] EXCEPT
                                    !.contactFrames =
                                      ContactFrames(robot.sides[side], robot.collision[side])]
                        IN  IF tracked[side]
                            THEN ArmFrame(side, h, robot.collision, solution[side])
                            ELSE [h EXCEPT !.commit = Null]]]

NextPhysics ==
  PhysicsFrame \/ BeforePhysicsStep \/ WorldStep \/ AfterPhysicsStep \/ RobotUseFrame

InitRobotPhysics ==
  InitPhysics /\ IdleBench /\ IdleFingers /\ IdleArm /\ IdleHand /\ IdleTracker

SpecPhysics == InitRobotPhysics /\ [][NextPhysics]_vars

\* an arm-link collider of the side is in contact with a collider that is not
\* an arm link's: a body link's, or one of the environment
ArmTouchesNonArm(side) ==
  \E name \in robot.pm.armColliders :
    /\ name[1] = side
    /\ \E other \in contactPairsWith(robot.pm, robot.touching, name) :
         other \notin robot.pm.armColliders

\* C17: after every checkCollisions call, collidingSides.left (respectively
\* .right) is true if and only if at least one left_ (right_) arm-link
\* collider is at that moment in contact with a non-arm collider, a robot
\* body link's or an environment collider (floor, table, objects); a flag an
\* earlier call set is gone once the contact is.
C17_FlagsIffArmTouchesNonArm ==
  (robot.mode = "physics" /\ robot.result # Null /\ robot.phase # "after") =>
    \A side \in Sides : robot.pm.collidingSides[side] <=> ArmTouchesNonArm(side)

C19_SustainedContactBlends ==
  (robot.mode = "physics" /\ robot.phase = "render") =>
    \A side \in Sides :
      LET h == robot.sides[side]
      IN  h.commit # Null =>
            /\ h.contactFrames >= COLLISION_GRACE_FRAMES =>
                 h.chain = blendToSafe(h.commit[1].solved, h.safeAngles)
            /\ h.contactFrames <= 1 => h.chain = h.commit[1].solved

(***************************************************************************)
(* The solvers called on their own: solveCCDIK of CCDIK.js, the            *)
(* regularized solveCCDIK (position weighted over orientation, pull toward *)
(* zero, step limited to MAX_ANGLE_CHANGE_PER_SOLVE) and the position-only *)
(* solveCCDIK.  A call is given a chain, a target pose, the scenes of its  *)
(* sweeps and its number of iterations.                                    *)
(***************************************************************************)
MaxCalls == 2

MAX_ANGLE_CHANGE_PER_SOLVE == Q(15, 100)

REGULARIZATION_WEIGHT == Q(5, 1000)

SMOOTH_WEIGHT == Q(8, 100)

\* the position contribution of joint i before its weight: atan2(sinA, cosA)
\* * sign(proj), or 0 when a guard keeps it out
positionContribution(scene, i, targetPos) ==
  Let([eps      \in {Q(1, 1000000)},
       lenE     \in {distanceTo(scene.endPos, scene.jointPos[i])},
       lenTi    \in {lenT(scene, i, targetPos)},
       toEnd    \in {Toward(scene.endPos, scene.jointPos[i])},
       toTarget \in {Toward(targetPos, scene.jointPos[i])} |->
  Let([cross \in {VFix(VCross(toEnd, toTarget))},
       cosA  \in {clamp(VDot(toEnd, toTarget), I(-1), I(1))} |->
  Let([sinA  \in {VLength(cross)},
       proj  \in {Fix(VDot(VNormalize(cross), scene.axis[i]))} |->
  IF /\ QLt(eps, lenE) /\ QLt(eps, lenTi)
     /\ QLt(eps, sinA) /\ QLt(Q(1, 100), QAbs(proj))
  THEN Fix(QMul(QMul(Pi, AcosOverPi(cosA)), Sign(proj)))
  ELSE I(0)])])])

\* the orientation contribution of joint i before its weight: halfAngle * 2
\* * sign(proj), or 0 when a guard keeps it out
orientationContribution(scene, i, targetQuat) ==
  Let([delta \in {DeltaQuat(scene.endQuat, targetQuat)} |->
  Let([halfAngle \in {Fix(QMul(Pi, QAbs(delta)))},
       oproj     \in {QMul(Sign(delta), VDot(scene.quatAxis, scene.axis[i]))} |->
  IF QLt(Q(5, 1000), halfAngle) /\ QLt(Q(1, 100), QAbs(oproj))
  THEN Fix(QMul(QMul(halfAngle, I(2)), Sign(oproj)))
  ELSE I(0)])])

\* the visit of joint i of n by the regularized solver, given the two
\* contributions of the sweep
VisitRegularized(joint, i, n, contribution) ==
  Let([t \in {IF n > 1 THEN Q(i - 1, n - 1) ELSE I(0)} |->
  Let([posW \in {QSub(I(1), QMul(t, Q(6, 10)))},
       oriW \in {QMul(t, Q(15, 100))} |->
  Let([weighted \in {QAdd(Fix(QMul(contribution.pos, posW)),
                          IF QLt(Q(1, 1000), oriW)
                          THEN Fix(QMul(contribution.ori, oriW)) ELSE I(0))} |->
  Let([regularized \in {QSub(weighted, QMul(joint.angle, REGULARIZATION_WEIGHT))} |->
  Let([damped \in {Fix(QMul(QMul(regularized, QSub(I(1), SMOOTH_WEIGHT)), Q(4, 10)))} |->
  IF QLt(QAbs(damped), Q(1, 10000)) THEN joint
  ELSE
  Let([limited \in {QMax(QNeg(MAX_ANGLE_CHANGE_PER_SOLVE),
                         QMin(MAX_ANGLE_CHANGE_PER_SOLVE, damped))},
       lo \in {IF joint.limit = Null THEN QNeg(Pi) ELSE joint.limit[1].lower},
       hi \in {IF joint.limit = Null THEN Pi ELSE joint.limit[1].upper} |->
  setJointValue(joint, QMax(lo, QMin(hi, QAdd(joint.angle, limited))), FALSE)])])])])])])

RECURSIVE VisitsRegularized(_, _, _, _, _, _)
\* joint i through the sweeps iter .. sweeps - 1 of the regularized solver
VisitsRegularized(joint, i, n, contributions, iter, sweeps) ==
  IF iter >= sweeps THEN joint
  ELSE
  Let([visited \in {VisitRegularized(joint, i, n,
                      contributions[SceneOf(contributions, iter)][i])} |->
  VisitsRegularized(visited, i, n, contributions, iter + 1, sweeps)])

\* the sweeps the regularized solver makes: it returns at posErr < 0.003 &&
\* oriErr < 0.05
SweepsRegularized(errs, iterations) ==
  Let([returns \in {{iter \in 0..(iterations - 1) :
                      LET e == errs[SceneOf(errs, iter)]
                      IN  QLt(e.posErr, Q(3, 1000)) /\ QLt(e.oriErr, Q(5, 100))}} |->
  IF returns = {} THEN iterations
  ELSE CHOOSE iter \in returns : \A other \in returns : iter <= other])

\* the regularized solveCCDIK: the joints after the call and its sweeps
solveCCDIKRegularized(joints, scenes, targetPos, targetQuat, iterations) ==
  Let([n      \in {Len(joints)},
       errs   \in {Values([k \in 1..Len(scenes) |->
                     [posErr |-> posErr(scenes[k], targetPos),
                      oriErr |-> oriErr(scenes[k], targetQuat)]])},
       contributions \in {Values([k \in 1..Len(scenes) |->
                     Values([i \in 1..Len(joints) |->
                       [pos |-> positionContribution(scenes[k], i, targetPos),
                        ori |-> orientationContribution(scenes[k], i, targetQuat)]])])} |->
  Let([sweeps \in {SweepsRegularized(errs, iterations)} |->
  [joints |-> Values([i \in 1..n |->
                VisitsRegularized(joints[i], i, n, contributions, 0, sweeps)]),
   sweeps |-> sweeps]])])

\* the visit of joint i by the position-only solver: passed over when a
\* vector is too short or the projection too small, else 0.6 of the angle
VisitPositionOnly(joint, scene, i, targetPos) ==
  Let([eps      \in {Q(1, 1000000)},
       lenEnd    \in {distanceTo(scene.endPos, scene.jointPos[i])},
       lenTarget \in {lenT(scene, i, targetPos)},
       toEnd    \in {Toward(scene.endPos, scene.jointPos[i])},
       toTarget \in {Toward(targetPos, scene.jointPos[i])} |->
  IF QLt(lenEnd, eps) \/ QLt(lenTarget, eps) THEN joint
  ELSE
  Let([cross    \in {VFix(VCross(toEnd, toTarget))},
       cosAngle \in {clamp(VDot(toEnd, toTarget), I(-1), I(1))} |->
  Let([sinAngle   \in {VLength(cross)},
       projection \in {Fix(VDot(VNormalize(cross), scene.axis[i]))} |->
  IF QLt(sinAngle, eps) \/ QLt(QAbs(projection), Q(1, 100)) THEN joint
  ELSE
  Let([angle \in {Fix(QMul(QMul(QMul(Pi, AcosOverPi(cosAngle)), Sign(projection)),
                           Q(6, 10)))},
       lo \in {IF joint.limit = Null THEN QNeg(Pi) ELSE joint.limit[1].lower},
       hi \in {IF joint.limit = Null THEN Pi ELSE joint.limit[1].upper} |->
  setJointValue(joint, clamp(QAdd(joint.angle, angle), lo, hi), FALSE)])])])])

RECURSIVE VisitsPositionOnly(_, _, _, _, _, _)
VisitsPositionOnly(joint, i, scenes, targetPos, iter, sweeps) ==
  IF iter >= sweeps THEN joint
  ELSE
  Let([visited \in {VisitPositionOnly(joint, scenes[SceneOf(scenes, iter)], i, targetPos)} |->
  VisitsPositionOnly(visited, i, scenes, targetPos, iter + 1, sweeps)])

\* the sweeps the position-only solver makes: it returns within 1 cm
SweepsPositionOnly(scenes, targetPos, iterations) ==
  Let([returns \in {{iter \in 0..(iterations - 1) :
                      QLt(posErr(scenes[SceneOf(scenes, iter)], targetPos), Q(1, 100))}} |->
  IF returns = {} THEN iterations
  ELSE CHOOSE iter \in returns : \A other \in returns : iter <= other])

\* the position-only solveCCDIK
solveCCDIKPositionOnly(joints, scenes, targetPos, iterations) ==
  Let([sweeps \in {SweepsPositionOnly(scenes, targetPos, iterations)} |->
  [joints |-> Values([i \in 1..Len(joints) |->
                VisitsPositionOnly(joints[i], i, scenes, targetPos, 0, sweeps)]),
   sweeps |-> sweeps]])

\* the calls drawn: a target pose and the kinds of the scenes of the sweeps.
\* AtWrist puts the goal on the wrist joints of the bent arm, with the end
\* effector a quarter turn from the target's orientation
SolverSamples ==
  [Side    |-> [targetPos |-> P(0, 500, 0), targetQuat |-> I(0),
                scenes |-> <<"bent", "stretched">>],
   Near    |-> [targetPos |-> P(400, -200, 100), targetQuat |-> I(0),
                scenes |-> <<"bent", "reached">>],
   AtWrist |-> [targetPos |-> P(368, -200, 0), targetQuat |-> Q(1, 4),
                scenes |-> <<"bent">>],
   Held    |-> [targetPos |-> P(400, -200, 100), targetQuat |-> Q(1, 2),
                scenes |-> <<"reached">>]]

SolverIterations == {1, 2, 20}

InitSolver ==
  \E side \in Sides :
    arm = [mode |-> "ccd", calls |-> 0, chain |-> G1ArmJoints(side), last |-> Null]

\* what a call leaves in the state: the chain, and the call with the angles
\* before and after it
Called(solver, name, iterations, result) ==
  [arm EXCEPT !.calls = @ + 1,
              !.chain = result.joints,
              !.last = Some([solver |-> solver, sample |-> name,
                             iterations |-> iterations, sweeps |-> result.sweeps,
                             before |-> Values([i \in 1..Len(arm.chain) |-> arm.chain[i].angle]),
                             after  |-> Values([i \in 1..Len(arm.chain) |->
                                                 result.joints[i].angle])])]

SceneList(sample) ==
  Values([k \in 1..Len(sample.scenes) |->
    Scene(sample.scenes[k], sample.targetPos, sample.targetQuat)])

\* a call of solveCCDIK of CCDIK.js
SolveWeighted ==
  /\ UNCHANGED NotArm
  /\ arm.mode = "ccd" /\ arm.calls < MaxCalls
  /\ \E name \in DOMAIN SolverSamples, iterations \in SolverIterations :
       LET sample == SolverSamples[name]
       IN  arm' = Called("weighted", name, iterations,
                         solveCCDIK(arm.chain, SceneList(sample), sample.targetPos,
                                    Some(sample.targetQuat), iterations, FALSE))

\* a call of the regularized solveCCDIK
SolveRegularized ==
  /\ UNCHANGED NotArm
  /\ arm.mode = "ccd" /\ arm.calls < MaxCalls
  /\ \E name \in DOMAIN SolverSamples, iterations \in SolverIterations :
       LET sample == SolverSamples[name]
       IN  arm' = Called("regularized", name, iterations,
                         solveCCDIKRegularized(arm.chain, SceneList(sample),
                                               sample.targetPos, sample.targetQuat,
                                               iterations))

\* a call of the position-only solveCCDIK
SolvePositionOnly ==
  /\ UNCHANGED NotArm
  /\ arm.mode = "ccd" /\ arm.calls < MaxCalls
  /\ \E name \in DOMAIN SolverSamples, iterations \in SolverIterations :
       LET sample == SolverSamples[name]
       IN  arm' = Called("positionOnly", name, iterations,
                         solveCCDIKPositionOnly(arm.chain, SceneList(sample),
                                                sample.targetPos, iterations))

NextSolver == SolveWeighted \/ SolveRegularized \/ SolvePositionOnly

InitSolvers ==
  InitSolver /\ IdleBench /\ IdleFingers /\ IdleHand /\ IdleTracker /\ IdleRobot

SpecSolver == InitSolvers /\ [][NextSolver]_vars

\* C22: over one call of the regularized solveCCDIK, all its outer
\* iterations together, the angle of every joint changes by at most
\* MAX_ANGLE_CHANGE_PER_SOLVE = 0.15 rad.
C22_ChangePerSolveLimited ==
  (arm.mode = "ccd" /\ arm.last # Null /\ arm.last[1].solver = "regularized") =>
    \A i \in 1..Len(arm.last[1].after) :
      QLe(QAbs(QSub(arm.last[1].after[i], arm.last[1].before[i])),
          MAX_ANGLE_CHANGE_PER_SOLVE)

\* joint i's vector to the end effector or to the goal is shorter than 1e-6
\* in the first sweep of the call drawn as name
Degenerate(name, i) ==
  LET sample == SolverSamples[name]
      scene  == Scene(sample.scenes[1], sample.targetPos, sample.targetQuat)
  IN  \/ QLt(distanceTo(scene.endPos, scene.jointPos[i]), Q(1, 1000000))
      \/ QLt(lenT(scene, i, sample.targetPos), Q(1, 1000000))

\* C23: in a joint visit of solveCCDIK (CCDIK.js, and the position-only
\* solver) where the joint-to-end-effector vector or the joint-to-goal vector
\* is shorter than 1e-6, the joint's correction is skipped: the visit leaves
\* the joint's angle as it was.  A call with iterations = 1 that does not
\* return at once visits each joint exactly once.
C23_DegenerateVisitSkipped ==
  (/\ arm.mode = "ccd" /\ arm.last # Null
   /\ arm.last[1].solver \in {"weighted", "positionOnly"}
   /\ arm.last[1].iterations = 1 /\ arm.last[1].sweeps = 1) =>
    \A i \in 1..Len(arm.last[1].after) :
      Degenerate(arm.last[1].sample, i) => arm.last[1].after[i] = arm.last[1].before[i]

(***************************************************************************)
(* PhysicsManager.js: the registries through init and dispose.  The world  *)
(* holds rigid bodies and colliders; a body is named by the order of its   *)
(* creation, a collider's handle is the lowest free slot of the world.     *)
(* The setup effect makes a manager and calls init; its cleanup calls      *)
(* dispose.                                                                *)
(***************************************************************************)
MaxEffects == 2

\* robot.links in the order of Object.entries
ManagerLinks ==
  <<<<"pelvis">>, <<"logo", "link">>, <<"left", "elbow", "link">>,
    <<"left", "hand", "index", "0", "link">>, <<"left", "hand", "palm", "link">>,
    <<"torso", "link">>>>

\* what a link's meshes hold: vertices with a hull, vertices whose hull
\* cannot be built, fewer than three vertices, none
Geometries == {"solid", "flat", "few", "none"}

\* the geometries drawn for the k-th link: all of them for the elbow and the
\* finger link, meshes or none for the others, the one of a skipped link fixed
GeometriesOf(k) ==
  IF ManagerLinks[k] \in SKIP_LINKS THEN {"solid"}
  ELSE IF k \in {3, 4} THEN Geometries
  ELSE {"solid", "none"}

\* name.includes('hand_') && !name.includes('palm')
isFingerLink(name) ==
  /\ \E k \in 1..(Len(name) - 1) : name[k] = "hand"
  /\ \A k \in 1..Len(name) : name[k] # "palm"

\* the collider description of a link, Null when there is none: the bounding
\* box of a finger link (null when the box is empty), else the convex hull of
\* the subsampled vertices (null below three vertices or without a hull)
colliderDesc(name, geometry) ==
  IF isFingerLink(name)
  THEN (IF geometry = "none" THEN Null ELSE Some("cuboid"))
  ELSE (IF geometry = "solid" THEN Some("convexHull") ELSE Null)

\* Map.set
MapSet(m, k, v) == [x \in DOMAIN m \cup {k} |-> IF x = k THEN v ELSE m[x]]

\* world.removeRigidBody: the body and the colliders attached to it leave the
\* world; removals counts the calls for each body
removeRigidBody(st, body) ==
  [st EXCEPT !.world.bodies = @ \ {body},
             !.world.colliders = [h \in {x \in DOMAIN @ : @[x] # body} |-> @[h]],
             !.removals = MapSet(@, body, IF body \in DOMAIN @ THEN @[body] + 1 ELSE 1)]

\* the loop body of init with the body of a link without collider left in
\* the world
initLinkKeepingBody(st, name, geometry) ==
  IF name \in SKIP_LINKS THEN st
  ELSE
  LET body    == st.nextBody
      created == [st EXCEPT !.world.bodies = @ \cup {body}, !.nextBody = @ + 1]
      desc    == colliderDesc(name, geometry)
      handle  == CHOOSE h \in 0..Cardinality(DOMAIN st.world.colliders) :
                   /\ h \notin DOMAIN st.world.colliders
                   /\ \A l \in 0..(h - 1) : l \in DOMAIN st.world.colliders
  IN  IF desc = Null THEN created
      ELSE [created EXCEPT
              !.world.colliders = MapSet(@, handle, body),
              !.pm.entries = MapSet(@, name, [body |-> body, collider |-> handle,
                                              arm |-> isArmLink(name)]),
              !.pm.colliderHandleToLink = MapSet(@, handle, name),
              !.pm.linkNames = Append(@, name),
              !.pm.armColliders = IF isArmLink(name)
                                  THEN Append(@, [name |-> name, collider |-> handle])
                                  ELSE @]

\* the loop body of init for one link
initLink(st, name, geometry) ==
  IF name \in SKIP_LINKS THEN st
  ELSE
  LET body    == st.nextBody
      created == [st EXCEPT !.world.bodies = @ \cup {body}, !.nextBody = @ + 1]
      desc    == colliderDesc(name, geometry)
      handle  == CHOOSE h \in 0..Cardinality(DOMAIN st.world.colliders) :
                   /\ h \notin DOMAIN st.world.colliders
                   /\ \A l \in 0..(h - 1) : l \in DOMAIN st.world.colliders
  IN  IF desc = Null THEN removeRigidBody(created, body)
      ELSE [created EXCEPT
              !.world.colliders = MapSet(@, handle, body),
              !.pm.entries = MapSet(@, name, [body |-> body, collider |-> handle,
                                              arm |-> isArmLink(name)]),
              !.pm.colliderHandleToLink = MapSet(@, handle, name),
              !.pm.linkNames = Append(@, name),
              !.pm.armColliders = IF isArmLink(name)
                                  THEN Append(@, [name |-> name, collider |-> handle])
                                  ELSE @]

RECURSIVE initLinks(_, _, _)
\* init(robot): the loop over the links from the k-th on
initLinks(st, k, geometry) ==
  IF k > Len(ManagerLinks) THEN st
  ELSE initLinks(initLink(st, ManagerLinks[k], geometry[k]), k + 1, geometry)

\* new PhysicsManager(rapier, world)
PhysicsManagerNew ==
  [entries |-> <<>>, colliderHandleToLink |-> <<>>, linkNames |-> <<>>,
   armColliders |-> <<>>, collidingSides |-> [left |-> FALSE, right |-> FALSE]]

RECURSIVE removeBodies(_, _)
\* the loop of dispose over the entries not yet visited
removeBodies(st, names) ==
  IF names = {} THEN st
  ELSE LET n == CHOOSE x \in names : TRUE
       IN  removeBodies(removeRigidBody(st, st.pm.entries[n].body), names \ {n})

\* dispose()
dispose(st) ==
  [removeBodies(st, DOMAIN st.pm.entries) EXCEPT
     !.pm.entries = <<>>, !.pm.colliderHandleToLink = <<>>,
     !.pm.linkNames = <<>>, !.pm.armColliders = <<>>]

\* the bodies and colliders of the scene: the floor and the table
EnvironmentBodies == {1, 2}

InitManager ==
  robot = [mode |-> "manager", phase |-> "none", effects |-> 0,
           world |-> [bodies |-> EnvironmentBodies, colliders |-> (0 :> 1) @@ (1 :> 2)],
           nextBody |-> 3, removals |-> <<>>,
           pm |-> PhysicsManagerNew, geometry |-> <<>>, registered |-> {}]

\* the setup effect with a world: a new manager, and init(robot)
ManagerEffect ==
  /\ UNCHANGED NotRobot
  /\ robot.mode = "manager" /\ robot.phase \in {"none", "disposed"}
  /\ robot.effects < MaxEffects
  /\ \E geometry \in [1..Len(ManagerLinks) -> Geometries] :
       /\ \A k \in 1..Len(ManagerLinks) : geometry[k] \in GeometriesOf(k)
       /\ LET made == initLinks([robot EXCEPT !.pm = PhysicsManagerNew], 1, geometry)
          IN  robot' = [made EXCEPT !.phase = "ready", !.effects = @ + 1,
                                    !.geometry = geometry,
                                    !.registered = {made.pm.entries[n].body :
                                                      n \in DOMAIN made.pm.entries}]

\* the cleanup of the setup effect: dispose()
ManagerCleanup ==
  /\ UNCHANGED NotRobot
  /\ robot.mode = "manager" /\ robot.phase = "ready"
  /\ robot' = [dispose(robot) EXCEPT !.phase = "disposed"]

NextManager == ManagerEffect \/ ManagerCleanup

InitPhysicsManager ==
  InitManager /\ IdleBench /\ IdleFingers /\ IdleArm /\ IdleHand /\ IdleTracker

SpecManager == InitPhysicsManager /\ [][NextManager]_vars

\* the links init should have registered: those not skipped whose geometry
\* gives a collider
WithCollider ==
  {ManagerLinks[k] : k \in {x \in 1..Len(ManagerLinks) :
      /\ ManagerLinks[x] \notin SKIP_LINKS
      /\ colliderDesc(ManagerLinks[x], robot.geometry[x]) # Null}}

\* C24: a link whose geometry gives no collider is passed over by init, its
\* body removed, and the loop goes on.  After init the links of entries, of
\* colliderHandleToLink and of linkNames are the same set (the links with a
\* collider), armColliders holds exactly its arm links, and every body the
\* world still holds besides the scene's has a registered collider.  After
\* dispose every registered body has been removed exactly once, the bodies
\* of the links passed over as well, and the four registries are empty.
C24_RegistriesConsistent ==
  robot.mode = "manager" =>
    LET pm    == robot.pm
        names == DOMAIN pm.entries
    IN  /\ robot.phase = "ready" =>
             /\ names = WithCollider
             /\ {pm.colliderHandleToLink[h] : h \in DOMAIN pm.colliderHandleToLink} = names
             /\ Cardinality(DOMAIN pm.colliderHandleToLink) = Cardinality(names)
             /\ {pm.linkNames[k] : k \in 1..Len(pm.linkNames)} = names
             /\ Len(pm.linkNames) = Cardinality(names)
             /\ {c.name : c \in {pm.armColliders[k] : k \in 1..Len(pm.armColliders)}}
                  = {n \in names : isArmLink(n)}
             /\ Len(pm.armColliders) = Cardinality({n \in names : isArmLink(n)})
             /\ \A k \in 1..Len(pm.armColliders) :
                  pm.armColliders[k].collider = pm.entries[pm.armColliders[k].name].collider
             /\ \A b \in robot.world.bodies \ EnvironmentBodies :
                  \E n \in names :
                    /\ pm.entries[n].body = b
                    /\ pm.entries[n].collider \in DOMAIN robot.world.colliders
                    /\ robot.world.colliders[pm.entries[n].collider] = b
                    /\ pm.colliderHandleToLink[pm.entries[n].collider] = n
        /\ robot.phase = "disposed" =>
             /\ names = {} /\ DOMAIN pm.colliderHandleToLink = {}
             /\ pm.linkNames = <<>> /\ pm.armColliders = <<>>
             /\ \A b \in robot.registered : robot.removals[b] = 1
             /\ robot.world.bodies = EnvironmentBodies
        /\ \A b \in DOMAIN robot.removals : robot.removals[b] = 1

\* a second manager, whose init passed over the elbow link (no hull) and
\* registered the others, after its dispose
C24_Witness ==
  /\ robot.mode = "manager" /\ robot.phase = "disposed" /\ robot.effects = 2
  /\ robot.geometry[3] = "flat" /\ robot.geometry[4] = "few"
  /\ Cardinality(robot.registered) = 4
  /\ Cardinality(DOMAIN robot.removals) = 10

(***************************************************************************)
(* URDFRobot, the load effect: the URDF is fetched and parsed, the parse   *)
(* requests the meshes through loadMeshCb, every request ends with its     *)
(* success or its error callback, and the effect's cleanup may run at any  *)
(* time.                                                                   *)
(*   pending, parsed, cancelled   the effect's variables                   *)
(*   outstanding   the mesh requests whose callback has not run            *)
(*   calls         the states in which setRobot was called, in order       *)
(***************************************************************************)
MaxMeshes == 4

\* setRobot(parsed), noted with the state it is called in
setRobot(st) ==
  [st EXCEPT !.calls = Append(@, [pending |-> st.pending, parsed |-> st.parsed,
                                  cancelled |-> st.cancelled,
                                  outstanding |-> st.outstanding])]

\* tryFinalize without the test of parsed
tryFinalizeUnparsed(st) ==
  IF st.pending = 0 /\ ~st.cancelled THEN setRobot(st) ELSE st

\* tryFinalize
tryFinalize(st) ==
  IF st.pending = 0 /\ st.parsed /\ ~st.cancelled THEN setRobot(st) ELSE st

\* a mesh request's callback, success or error: onLoad with the mesh or with
\* an empty group, pending--, tryFinalize()
meshCallback(st, outcome) ==
  tryFinalize([st EXCEPT !.pending = @ - 1, !.outstanding = @ - 1,
                         !.done = Append(@, outcome)])

RECURSIVE loadMeshes(_, _)
\* loader.parse(text) calling loadMeshCb for each mesh of the URDF: pending++
\* and the request; a request that ends at once runs its callback here
loadMeshes(st, requests) ==
  IF requests = <<>> THEN st
  ELSE LET asked == [st EXCEPT !.pending = @ + 1, !.outstanding = @ + 1]
       IN  loadMeshes(IF Head(requests) = "later" THEN asked
                      ELSE meshCallback(asked, Head(requests)),
                      Tail(requests))

\* how a request made during the parse ends: later, or at once with its
\* success or error callback
Requests ==
  UNION {[1..n -> {"later", "loaded", "failed"}] : n \in 0..MaxMeshes}

InitLoad ==
  hand = [mode |-> "load", phase |-> "fetching", pending |-> 0, parsed |-> FALSE,
          cancelled |-> FALSE, outstanding |-> 0, done |-> <<>>, calls |-> <<>>]

\* the fetch resolves: parsed = loader.parse(text); tryFinalize()
Parse ==
  /\ UNCHANGED NotHand
  /\ hand.mode = "load" /\ hand.phase = "fetching"
  /\ \E requests \in Requests :
       hand' = tryFinalize([loadMeshes(hand, requests) EXCEPT
                              !.parsed = TRUE, !.phase = "parsed"])

\* the fetch fails, or loader.parse throws after some requests: the catch
\* handler logs, parsed stays null
ParseFails ==
  /\ UNCHANGED NotHand
  /\ hand.mode = "load" /\ hand.phase = "fetching"
  /\ \E requests \in Requests :
       hand' = [loadMeshes(hand, requests) EXCEPT !.phase = "failed"]

\* a mesh request ends after the parse: its success or its error callback
MeshCallback ==
  /\ UNCHANGED NotHand
  /\ hand.mode = "load" /\ hand.outstanding > 0
  /\ \E outcome \in {"loaded", "failed"} : hand' = meshCallback(hand, outcome)

\* the effect's cleanup
Cleanup ==
  /\ UNCHANGED NotHand
  /\ hand.mode = "load" /\ ~hand.cancelled
  /\ hand' = [hand EXCEPT !.cancelled = TRUE]

NextLoad == Parse \/ ParseFails \/ MeshCallback \/ Cleanup

InitLoadEffect ==
  InitLoad /\ IdleBench /\ IdleFingers /\ IdleArm /\ IdleTracker /\ IdleRobot

SpecLoad == InitLoadEffect /\ [][NextLoad]_vars

\* C29: for every interleaving of the mesh callbacks (success or error,
\* during the parse or after it) with the parse and the cleanup, setRobot is
\* called at most once, only with the URDF parsed and no mesh request
\* outstanding, and never once the cleanup has set cancelled.
C29_FinalizedOnceWhenComplete ==
  hand.mode = "load" =>
    /\ Len(hand.calls) <= 1
    /\ \A k \in 1..Len(hand.calls) :
         /\ hand.calls[k].parsed /\ hand.calls[k].pending = 0
         /\ hand.calls[k].outstanding = 0 /\ ~hand.calls[k].cancelled
    /\ hand.pending = hand.outstanding

\* setRobot has been called once three requests had ended, by success and
\* by error; the cleanup has run since
C29_Witness ==
  /\ hand.mode = "load" /\ Len(hand.calls) = 1 /\ hand.cancelled
  /\ Len(hand.done) = 3
  /\ \E k \in 1..3 : hand.done[k] = "loaded"
  /\ \E k \in 1..3 : hand.done[k] = "failed"
====
